---- MODULE Spec2Model ----
(***************************************************************************)
(* ScamGuard: the client-side scam analysis session (useScamAnalysis) and  *)
(* the rule-based scorer it dispatches to.                                 *)
(*                                                                         *)
(* Text is a sequence of one-character strings, so that toLowerCase, trim  *)
(* and includes are computed as the code computes them.                    *)
(***************************************************************************)
EXTENDS Integers, Sequences, FiniteSets, TLC

(***************************************************************************)
(* Text primitives (String.prototype.toLowerCase / trim / includes).       *)
(***************************************************************************)
\* toLowerCase by character, for the letters a string of this module can hold
\* (ASCII and Latin-1).  Capitals beyond U+00FF, such as the Kelvin sign
\* U+212A that lowers to "k", are not in any text of the model.
UpperToLower ==
  ("A" :> "a") @@ ("B" :> "b") @@ ("C" :> "c") @@ ("D" :> "d") @@ ("E" :> "e") @@
  ("F" :> "f") @@ ("G" :> "g") @@ ("H" :> "h") @@ ("I" :> "i") @@ ("J" :> "j") @@
  ("K" :> "k") @@ ("L" :> "l") @@ ("M" :> "m") @@ ("N" :> "n") @@ ("O" :> "o") @@
  ("P" :> "p") @@ ("Q" :> "q") @@ ("R" :> "r") @@ ("S" :> "s") @@ ("T" :> "t") @@
  ("U" :> "u") @@ ("V" :> "v") @@ ("W" :> "w") @@ ("X" :> "x") @@ ("Y" :> "y") @@
  ("Z" :> "z") @@
  \* the capitals of Latin-1, U+00C0..U+00DE without the multiplication sign
  ("À" :> "à") @@ ("Á" :> "á") @@ ("Â" :> "â") @@ ("Ã" :> "ã") @@ ("Ä" :> "ä") @@
  ("Å" :> "å") @@ ("Æ" :> "æ") @@ ("Ç" :> "ç") @@ ("È" :> "è") @@ ("É" :> "é") @@
  ("Ê" :> "ê") @@ ("Ë" :> "ë") @@ ("Ì" :> "ì") @@ ("Í" :> "í") @@ ("Î" :> "î") @@
  ("Ï" :> "ï") @@ ("Ð" :> "ð") @@ ("Ñ" :> "ñ") @@ ("Ò" :> "ò") @@ ("Ó" :> "ó") @@
  ("Ô" :> "ô") @@ ("Õ" :> "õ") @@ ("Ö" :> "ö") @@ ("Ø" :> "ø") @@ ("Ù" :> "ù") @@
  ("Ú" :> "ú") @@ ("Û" :> "û") @@ ("Ü" :> "ü") @@ ("Ý" :> "ý") @@ ("Þ" :> "þ")

ToLowerChar(c) == IF c \in DOMAIN UpperToLower THEN UpperToLower[c] ELSE c

RECURSIVE ToLowerCase(_)
ToLowerCase(s) ==
  IF s = <<>> THEN <<>> ELSE <<ToLowerChar(Head(s))>> \o ToLowerCase(Tail(s))

\* White space as trim removes it: space, tab, line feed, carriage return,
\* form feed, vertical tab (U+000B) and no-break space (U+00A0).  The other
\* characters trim removes (U+FEFF, U+2028, U+2029 and the remaining space
\* separators) are outside the characters a string of this module can hold.
IsSpace(c) == c \in {" ", "\t", "\n", "\r", "\f", "", " "}

RECURSIVE TrimStart(_)
TrimStart(s) ==
  IF s # <<>> /\ IsSpace(Head(s)) THEN TrimStart(Tail(s)) ELSE s

RECURSIVE TrimEnd(_)
TrimEnd(s) ==
  IF s # <<>> /\ IsSpace(s[Len(s)]) THEN TrimEnd(SubSeq(s, 1, Len(s) - 1)) ELSE s

Trim(s) == TrimEnd(TrimStart(s))

\* A test that holds only when the text ends with the keyword.
EndsWith(text, kw) ==
  Len(kw) <= Len(text) /\ SubSeq(text, Len(text) - Len(kw) + 1, Len(text)) = kw

Includes(text, kw) ==
  \E i \in 1..(Len(text) - Len(kw) + 1) : \A j \in 1..Len(kw) : text[i + j - 1] = kw[j]

(***************************************************************************)
(* The rule-based scorer of the client hook.                               *)
(***************************************************************************)
\* scamPatterns: the seven canonical indicator ids, in table order.
scamPatterns ==
  << "impersonation", "urgency", "emotional", "authority",
     "otp_request", "money_request", "voice_pattern" >>

\* The languages useLanguage() returns in the model: the default and one more
\* of the guidance table.
Languages == {"en", "hi"}

\* Number of guidance strings per language and risk level.
GuidanceCount ==
  [en |-> [low |-> 3, medium |-> 4, high |-> 6],
   hi |-> [low |-> 3, medium |-> 4, high |-> 6],
   ta |-> [low |-> 3, medium |-> 3, high |-> 4]]

\* guidance[lang]?.[riskLevel] || guidance.en[riskLevel]; a guidance string
\* is named by its language, level and position in the table.
getLocalizedGuidance(riskLevel, lang) ==
  LET l == IF lang \in DOMAIN GuidanceCount THEN lang ELSE "en"
  IN [i \in 1..GuidanceCount[l][riskLevel] |-> <<l, riskLevel, i>>]

\* confidence of a matched rule, 0.85, in hundredths
MatchedConfidence == 85

\* the score a high result is raised to
HighFloor == 75

\* A client table that holds the emotional rule only.
patternsEmotionalOnly ==
  <<
    [id |-> "emotional", weight |-> 15, keywords |-> <<
       <<"e","m","e","r","g","e","n","c","y">>,  \* 'emergency'
       <<"h","e","l","p">>,  \* 'help'
       <<"s","a","v","e">>,  \* 'save'
       <<"f","e","a","r">>,  \* 'fear'
       <<"t","h","r","e","a","t">>   \* 'threat'
    >>]
  >>

\* The client keyword table: one rule per indicator id, in loop order.
patterns ==
  <<
    [id |-> "impersonation", weight |-> 25, keywords |-> <<
       <<"b","a","n","k">>,  \* 'bank'
       <<"b","a","n","k"," ","s","e">>,  \* 'bank se'
       <<"f","r","o","m"," ","b","a","n","k">>,  \* 'from bank'
       <<"r","b","i">>,  \* 'rbi'
       <<"g","o","v","e","r","n","m","e","n","t">>,  \* 'government'
       <<"p","o","l","i","c","e">>,  \* 'police'
       <<"t","a","x"," ","d","e","p","a","r","t","m","e","n","t">>,  \* 'tax department'
       <<"i","n","c","o","m","e"," ","t","a","x">>,  \* 'income tax'
       <<"s","b","i">>,  \* 'sbi'
       <<"h","d","f","c">>,  \* 'hdfc'
       <<"i","c","i","c","i">>   \* 'icici'
    >>],
    [id |-> "otp_request", weight |-> 30, keywords |-> <<
       <<"o","t","p">>,  \* 'otp'
       <<"s","h","a","r","e"," ","o","t","p">>,  \* 'share otp'
       <<"o","t","p"," ","b","a","t","a","o">>,  \* 'otp batao'
       <<"o","t","p"," ","b","h","e","j","o">>,  \* 'otp bhejo'
       <<"p","i","n">>,  \* 'pin'
       <<"c","v","v">>,  \* 'cvv'
       <<"p","a","s","s","w","o","r","d">>,  \* 'password'
       <<"v","e","r","i","f","y"," ","c","o","d","e">>   \* 'verify code'
    >>],
    [id |-> "urgency", weight |-> 25, keywords |-> <<
       <<"i","m","m","e","d","i","a","t","e","l","y">>,  \* 'immediately'
       <<"u","r","g","e","n","t">>,  \* 'urgent'
       <<"r","i","g","h","t"," ","n","o","w">>,  \* 'right now'
       <<"a","c","c","o","u","n","t"," ","b","l","o","c","k","e","d">>,  \* 'account blocked'
       <<"a","c","c","o","u","n","t"," ","w","i","l","l"," ","b","e"," ","b","l","o","c","k","e","d">>,  \* 'account will be blocked'
       <<"s","u","s","p","e","n","d">>,  \* 'suspend'
       <<"a","c","t"," ","n","o","w">>   \* 'act now'
    >>],
    [id |-> "authority", weight |-> 20, keywords |-> <<
       <<"a","r","r","e","s","t">>,  \* 'arrest'
       <<"p","o","l","i","c","e">>,  \* 'police'
       <<"l","e","g","a","l">>,  \* 'legal'
       <<"c","a","s","e">>,  \* 'case'
       <<"f","i","n","e">>,  \* 'fine'
       <<"c","o","u","r","t">>   \* 'court'
    >>],
    [id |-> "money_request", weight |-> 25, keywords |-> <<
       <<"t","r","a","n","s","f","e","r">>,  \* 'transfer'
       <<"u","p","i">>,  \* 'upi'
       <<"g","i","f","t"," ","c","a","r","d">>,  \* 'gift card'
       <<"p","a","y">>,  \* 'pay'
       <<"s","e","n","d"," ","m","o","n","e","y">>   \* 'send money'
    >>],
    [id |-> "emotional", weight |-> 15, keywords |-> <<
       <<"e","m","e","r","g","e","n","c","y">>,  \* 'emergency'
       <<"h","e","l","p">>,  \* 'help'
       <<"s","a","v","e">>,  \* 'save'
       <<"f","e","a","r">>,  \* 'fear'
       <<"t","h","r","e","a","t">>   \* 'threat'
    >>]
  >>

\* A rule that matches only when every one of its keywords is contained.
FoundEvery(text, p) == \A k \in 1..Len(p.keywords) : Includes(text, p.keywords[k])

Found(text, p) == \E k \in 1..Len(p.keywords) : Includes(text, p.keywords[k])

Indicator(id, found) ==
  [id |-> id, type |-> id, detected |-> found,
   confidence |-> IF found THEN MatchedConfidence ELSE 0]

RECURSIVE WeightSumPerKeyword(_, _, _)
\* A loop that adds a rule's weight once for every keyword of it that matches.
WeightSumPerKeyword(text, table, n) ==
  IF n = 0 THEN 0
  ELSE WeightSumPerKeyword(text, table, n - 1)
       + table[n].weight
         * Cardinality({k \in 1..Len(table[n].keywords) : Includes(text, table[n].keywords[k])})

RECURSIVE WeightSumAll(_, _, _)
\* A loop that adds the weight of every rule, matched or not.
WeightSumAll(text, table, n) ==
  IF n = 0 THEN 0 ELSE WeightSumAll(text, table, n - 1) + table[n].weight

RECURSIVE WeightSum(_, _, _)
\* the riskScore accumulated by the loop over the first n rules
WeightSum(text, table, n) ==
  IF n = 0 THEN 0
  ELSE WeightSum(text, table, n - 1)
       + (IF Found(text, table[n]) THEN table[n].weight ELSE 0)

Min2(a, b) == IF a <= b THEN a ELSE b

Max2(a, b) == IF a >= b THEN a ELSE b

\* The bands of the AI prompt: high from 70, medium from 40.
LevelOfPromptBands(score) ==
  IF score >= 70 THEN "high" ELSE IF score >= 40 THEN "medium" ELSE "low"

LevelOf(score) == IF score >= 50 THEN "high" ELSE IF score >= 25 THEN "medium" ELSE "low"

ruleBasedScamAnalysis(transcript, lang) ==
  LET text == Trim(ToLowerCase(transcript))
      indicators ==
        [i \in 1..Len(patterns) |-> Indicator(patterns[i].id, Found(text, patterns[i]))]
        \o << Indicator("voice_pattern", FALSE) >>
      riskScore == Min2(100, WeightSum(text, patterns, Len(patterns)))
      riskLevel == LevelOf(riskScore)
  IN [riskLevel |-> riskLevel,
      riskScore |-> IF riskLevel = "high" THEN Max2(riskScore, HighFloor) ELSE riskScore,
      indicators |-> indicators,
      guidance |-> getLocalizedGuidance(riskLevel, lang)]

(***************************************************************************)
(* The analysis session: useScamAnalysis.                                  *)
(***************************************************************************)
\* Minimum transcript length of the periodic check
ANALYZE_THRESHOLD == 15

\* Minimum transcript length of the final analysis of stopAnalysis
FinalThreshold == 15

\* Minimum trimmed length at which updateTranscript arms the debounce timer
DebounceThreshold == 10

\* Cap on the number of startAnalysis calls of a behaviour
MaxStarts == 2

\* Bound: dispatches whose caller has not resumed, at any one time.
MaxAwaiting == 1

\* Bound: analyzeAudio calls whose two-second delay is pending, at any one time.
MaxAudioDelays == 1

\* Bound of the model: the number of startRecording calls.
MaxRecordings == 2

\* Bound: the recordings MonitorView starts.
MaxMonitorings == 1

\* Transcripts handed to the hook.
TShareOtpPadded ==   \* 'Share OTP      ' (15 characters, 9 after trim)
  <<"S","h","a","r","e"," ","O","T","P"," "," "," "," "," "," ">>

TShareYourOtp ==     \* 'share your otp' (14 characters)
  <<"s","h","a","r","e"," ","y","o","u","r"," ","o","t","p">>

TShareYourOtpSp ==   \* 'share your otp ' (15 characters)
  <<"s","h","a","r","e"," ","y","o","u","r"," ","o","t","p"," ">>

TShareImmediately == \* 'share your otp immediately' (26 characters)
  <<"s","h","a","r","e"," ","y","o","u","r"," ","o","t","p"," ","i","m","m","e","d","i","a","t","e","l","y">>

THowAreYou ==        \* 'Hi, how are you doing today?' (28 characters)
  <<"H","i",","," ","h","o","w"," ","a","r","e"," ","y","o","u"," ","d","o","i","n","g"," ","t","o","d","a","y","?">>

Transcripts ==
  {TShareOtpPadded, TShareYourOtp, TShareYourOtpSp, TShareImmediately, THowAreYou}

InitialTranscripts == {<<>>, TShareYourOtpSp}

\* The transcripts handed to updateTranscript.
UpdateTranscripts == Transcripts \ {TShareYourOtpSp}

\* The transcripts a consumer of the hook hands to analyzeTranscript itself.
DirectTranscripts == {TShareImmediately, THowAreYou}

TBlank ==  \* '   ' (3 characters)
  <<" "," "," ">>

TFormFeed ==  \* a form feed and a no-break space (2 characters, 0 after trim)
  <<"\f"," ">>

THelpMe ==  \* 'help me' (7 characters)
  <<"h","e","l","p"," ","m","e">>

TCourtCase ==  \* 'court case' (10 characters)
  <<"c","o","u","r","t"," ","c","a","s","e">>

TArrestUpi ==  \* 'arrest upi' (10 characters)
  <<"a","r","r","e","s","t"," ","u","p","i">>

TBankPay ==  \* 'bank pay' (8 characters)
  <<"b","a","n","k"," ","p","a","y">>

TBankOtpUrgent ==  \* 'Bank OTP urgent' (15 characters)
  <<"B","a","n","k"," ","O","T","P"," ","u","r","g","e","n","t">>

TEverything ==  \* 'bank otp urgent arrest pay help' (31 characters)
  <<"b","a","n","k"," ","o","t","p"," ","u","r","g","e","n","t"," ","a","r","r","e","s","t"," ","p","a","y"," ","h","e","l","p">>

TMeetingTomorrow ==  \* "I'm calling to check on our meeting tomorrow"
  <<"I","'","m"," ","c","a","l","l","i","n","g"," ","t","o"," ","c","h","e","c","k"," ","o","n"," ","o","u","r"," ","m","e","e","t","i","n","g"," ","t","o","m","o","r","r","o","w">>

TProjectDetails ==  \* "Can we discuss the project details?"
  <<"C","a","n"," ","w","e"," ","d","i","s","c","u","s","s"," ","t","h","e"," ","p","r","o","j","e","c","t"," ","d","e","t","a","i","l","s","?">>

TScheduleTime ==  \* "Let's schedule a time to talk about this"
  <<"L","e","t","'","s"," ","s","c","h","e","d","u","l","e"," ","a"," ","t","i","m","e"," ","t","o"," ","t","a","l","k"," ","a","b","o","u","t"," ","t","h","i","s">>

TSampleScam ==  \* "I am calling from your bank. Share your OTP immediately or your account will be blocked."
  <<"I"," ","a","m"," ","c","a","l","l","i","n","g"," ","f","r","o","m"," ","y","o","u","r"," ","b","a","n","k","."," ","S","h","a","r","e"," ","y","o","u","r"," ","O","T","P"," ","i","m","m","e","d","i","a","t","e","l","y"," ","o","r"," ","y","o","u","r"," ","a","c","c","o","u","n","t"," ","w","i","l","l"," ","b","e"," ","b","l","o","c","k","e","d",".">>

TScamBank ==  \* "I'm calling from your bank, we've detected suspicious activity"
  <<"I","'","m"," ","c","a","l","l","i","n","g"," ","f","r","o","m"," ","y","o","u","r"," ","b","a","n","k",","," ","w","e","'","v","e"," ","d","e","t","e","c","t","e","d"," ","s","u","s","p","i","c","i","o","u","s"," ","a","c","t","i","v","i","t","y">>

TScamOtp ==  \* "You need to share your OTP immediately or your account will be blocked"
  <<"Y","o","u"," ","n","e","e","d"," ","t","o"," ","s","h","a","r","e"," ","y","o","u","r"," ","O","T","P"," ","i","m","m","e","d","i","a","t","e","l","y"," ","o","r"," ","y","o","u","r"," ","a","c","c","o","u","n","t"," ","w","i","l","l"," ","b","e"," ","b","l","o","c","k","e","d">>

TScamTransfer ==  \* "Transfer money now or face legal action"
  <<"T","r","a","n","s","f","e","r"," ","m","o","n","e","y"," ","n","o","w"," ","o","r"," ","f","a","c","e"," ","l","e","g","a","l"," ","a","c","t","i","o","n">>

TScamPolice ==  \* "This is the police, you're under investigation"
  <<"T","h","i","s"," ","i","s"," ","t","h","e"," ","p","o","l","i","c","e",","," ","y","o","u","'","r","e"," ","u","n","d","e","r"," ","i","n","v","e","s","t","i","g","a","t","i","o","n">>

TScamPin ==  \* "Your account will be suspended unless you provide your PIN"
  <<"Y","o","u","r"," ","a","c","c","o","u","n","t"," ","w","i","l","l"," ","b","e"," ","s","u","s","p","e","n","d","e","d"," ","u","n","l","e","s","s"," ","y","o","u"," ","p","r","o","v","i","d","e"," ","y","o","u","r"," ","P","I","N">>

TScamGiftCards ==  \* "Send gift cards to resolve this issue"
  <<"S","e","n","d"," ","g","i","f","t"," ","c","a","r","d","s"," ","t","o"," ","r","e","s","o","l","v","e"," ","t","h","i","s"," ","i","s","s","u","e">>

\* The README's phrases of a normal call.
TShareImmediatelySp ==  \* 'share your otp immediately ' (27 characters)
  TShareImmediately \o << " " >>

\* The values the recorder's transcript takes: final results, each followed by
\* a space, appended one after the other.
LiveTranscripts == {<<>>, TShareYourOtpSp, TShareImmediatelySp}

\* The final results speech recognition delivers.
Finals ==
  { <<"s","h","a","r","e"," ","y","o","u","r"," ","o","t","p">>,
    <<"i","m","m","e","d","i","a","t","e","l","y">> }

ReadmeNormalPhrases == {THowAreYou, TMeetingTomorrow, TProjectDetails, TScheduleTime}

\* The README's phrases of a scam call.
ReadmeScamPhrases ==
  {TScamBank, TScamOtp, TScamTransfer, TScamPolice, TScamPin, TScamGiftCards}

\* The transcripts sent to the edge function.
ServeTranscripts ==
  Transcripts \cup ReadmeNormalPhrases
    \cup { <<>>, TBlank, TFormFeed, THelpMe, TCourtCase, TArrestUpi, TBankPay,
           TBankOtpUrgent, TEverything, TSampleScam }

\* The transcripts handed to analyzeTranscript directly.
ClientTranscripts == ServeTranscripts \cup ReadmeScamPhrases

VARIABLES
  isAnalyzing,            \* useState(false)
  analysis,               \* useState<AnalysisResult | null>(null): the published result
  transcriptRef,          \* useRef<string>('')
  lastAnalyzedLengthRef,  \* useRef<number>(0)
  firstCheckTimeoutRef,   \* handle of the warm-up timeout, or NullTimer
  intervalRef,            \* handle of the recurring interval, or NullTimer
  debounceRef,            \* handle of the debounce timeout, or NullTimer
  timers,                 \* the timers the runtime holds pending
  awaiting,               \* dispatches whose caller has not yet resumed, oldest first
  sessions,               \* number of startAnalysis calls so far
  stopped,                \* value of sessions at the last stopAnalysis call
  lastStarted,            \* <<snapshot>> of the most recently started dispatch since start
  language,               \* useLanguage().language
  mounted,                \* the component that uses the hook is mounted
  audioDelays,            \* pending delays of analyzeAudio, oldest first: for each, the
                          \* session of the latest warm-up timeout set before it that is
                          \* still pending, 0 when there is none
  last,                   \* what the last step did
  LOVABLE_API_KEY,        \* Deno.env.get('LOVABLE_API_KEY'): TRUE when a key is set
  handlers,               \* the calls of the edge function's handler: for each, where it
                          \* stands (pc), its request, its fetch and its Response
  isRecording,            \* useAudioRecorder: useState(false)
  isPaused,               \* useState(false)
  recorderError,          \* useState<string | null>(null): "" for null
  liveTranscript,         \* useState(''): the recorder's transcript
  isRecordingRef,         \* useRef(false)
  isPausedRef,            \* useRef(false)
  mediaRecorderRef,       \* the MediaRecorder the ref holds, 0 for null
  recognitionRef,         \* the SpeechRecognition the ref holds, 0 for null
  mediaRecorders,         \* the state of every MediaRecorder created
  recognitions,           \* the state of every SpeechRecognition created
  gettingUserMedia,       \* startRecording calls suspended at getUserMedia
  recordings,             \* number of startRecording calls so far
  SpeechRecognition,      \* window.SpeechRecognition || window.webkitSpeechRecognition exists
  lastRec,                \* what the last step of the recorder did
  startTimeRef,           \* MonitorView: useRef<Date | null>(null), TRUE when set
  effectDue,              \* the transcript effect's dependencies changed since it last ran
  callRecord              \* the last record handed to onCallComplete, or NoRecord

vars ==
  << isAnalyzing, analysis, transcriptRef, lastAnalyzedLengthRef,
     firstCheckTimeoutRef, intervalRef, debounceRef, timers, awaiting,
     sessions, stopped, lastStarted, language, mounted, audioDelays, last,
     LOVABLE_API_KEY, handlers,
     isRecording, isPaused, recorderError, liveTranscript, isRecordingRef, isPausedRef,
     mediaRecorderRef, recognitionRef, mediaRecorders, recognitions, gettingUserMedia,
     recordings, SpeechRecognition, lastRec,
     startTimeRef, effectDue, callRecord >>

\* The state of the recorder hook.
recorderVars ==
  << isRecording, isPaused, recorderError, liveTranscript, isRecordingRef, isPausedRef,
     mediaRecorderRef, recognitionRef, mediaRecorders, recognitions, gettingUserMedia,
     recordings, SpeechRecognition, lastRec >>

\* The state MonitorView keeps beside the two hooks.
monitorVars == << startTimeRef, effectDue, callRecord >>

viewVars == << recorderVars, monitorVars >>

\* The state of the edge function.
serveVars == << LOVABLE_API_KEY, handlers >>

\* The state of the analysis session.
hookVars ==
  << isAnalyzing, analysis, transcriptRef, lastAnalyzedLengthRef,
     firstCheckTimeoutRef, intervalRef, debounceRef, timers, awaiting,
     sessions, stopped, lastStarted, language, mounted, audioDelays, last >>

(***************************************************************************)
(* The edge function analyze-scam: requests, upstream replies, responses.  *)
(***************************************************************************)
\* indicatorTypes: the ids the edge function reports, in order.
indicatorTypes ==
  << "impersonation", "urgency", "emotional", "authority",
     "otp_request", "money_request", "voice_pattern" >>

\* The keyword table of the edge function's rule branch, in table order.
edgePatterns ==
  <<
    [id |-> "impersonation", weight |-> 25, keywords |-> <<
       <<"b","a","n","k">>,  \* 'bank'
       <<"b","a","n","k"," ","s","e">>,  \* 'bank se'
       <<"f","r","o","m"," ","b","a","n","k">>,  \* 'from bank'
       <<"r","b","i">>,  \* 'rbi'
       <<"g","o","v","e","r","n","m","e","n","t">>,  \* 'government'
       <<"p","o","l","i","c","e">>,  \* 'police'
       <<"t","a","x"," ","d","e","p","a","r","t","m","e","n","t">>   \* 'tax department'
    >>],
    [id |-> "otp_request", weight |-> 30, keywords |-> <<
       <<"o","t","p">>,  \* 'otp'
       <<"s","h","a","r","e"," ","o","t","p">>,  \* 'share otp'
       <<"o","t","p"," ","b","a","t","a","o">>,  \* 'otp batao'
       <<"p","i","n">>,  \* 'pin'
       <<"c","v","v">>,  \* 'cvv'
       <<"p","a","s","s","w","o","r","d">>   \* 'password'
    >>],
    [id |-> "urgency", weight |-> 25, keywords |-> <<
       <<"i","m","m","e","d","i","a","t","e","l","y">>,  \* 'immediately'
       <<"u","r","g","e","n","t">>,  \* 'urgent'
       <<"a","c","c","o","u","n","t"," ","b","l","o","c","k","e","d">>,  \* 'account blocked'
       <<"a","c","c","o","u","n","t"," ","w","i","l","l"," ","b","e"," ","b","l","o","c","k","e","d">>,  \* 'account will be blocked'
       <<"a","c","t"," ","n","o","w">>   \* 'act now'
    >>],
    [id |-> "authority", weight |-> 20, keywords |-> <<
       <<"a","r","r","e","s","t">>,  \* 'arrest'
       <<"p","o","l","i","c","e">>,  \* 'police'
       <<"l","e","g","a","l">>,  \* 'legal'
       <<"c","a","s","e">>,  \* 'case'
       <<"f","i","n","e">>   \* 'fine'
    >>],
    [id |-> "money_request", weight |-> 25, keywords |-> <<
       <<"t","r","a","n","s","f","e","r">>,  \* 'transfer'
       <<"u","p","i">>,  \* 'upi'
       <<"g","i","f","t"," ","c","a","r","d">>,  \* 'gift card'
       <<"p","a","y">>   \* 'pay'
    >>]
  >>

\* A value decoded by JSON.parse. Of an object only the members the handler
\* reads or returns are kept; hasIndicators says whether `indicators` is an array.
JValue(kind, riskLevel, riskScore, hasIndicators, indicators, guidance) ==
  [kind |-> kind, riskLevel |-> riskLevel, riskScore |-> riskScore,
   hasIndicators |-> hasIndicators, indicators |-> indicators, guidance |-> guidance]

\* Text that JSON.parse rejects.
NotJson == JValue("garbage", "", 0, FALSE, <<>>, <<>>)

JNull == JValue("null", "", 0, FALSE, <<>>, <<>>)

JNumber == JValue("number", "", 0, FALSE, <<>>, <<>>)

AiIndicator(id, detected, confidence) ==
  [id |-> id, type |-> id, detected |-> detected, confidence |-> confidence]

\* A response in the format the prompt asks for, all seven indicators.
AiHigh ==
  JValue("object", "high", 85, TRUE,
         << AiIndicator("impersonation", TRUE, 90), AiIndicator("urgency", TRUE, 80),
            AiIndicator("emotional", FALSE, 0), AiIndicator("authority", FALSE, 0),
            AiIndicator("otp_request", TRUE, 95), AiIndicator("money_request", FALSE, 0),
            AiIndicator("voice_pattern", FALSE, 0) >>,
         << "End the call." >>)

\* The two indicators of the prompt's example only.
AiPartial ==
  JValue("object", "medium", 50, TRUE,
         << AiIndicator("impersonation", TRUE, 90), AiIndicator("otp_request", FALSE, 0) >>,
         << "Be careful." >>)

AiEmptyIndicators == JValue("object", "low", 10, TRUE, <<>>, << "Looks safe." >>)

AiNoIndicators == JValue("object", "low", 10, FALSE, <<>>, << "Looks safe." >>)

AiDuplicate ==
  JValue("object", "medium", 45, TRUE,
         << AiIndicator("otp_request", TRUE, 90), AiIndicator("otp_request", TRUE, 70) >>,
         << "Be careful." >>)

AiUnknownId ==
  JValue("object", "medium", 45, TRUE,
         << AiIndicator("phishing", TRUE, 90) >>, << "Be careful." >>)

AiScore150 == JValue("object", "high", 150, TRUE, <<>>, << "End the call." >>)

AiHighScore10 == JValue("object", "high", 10, TRUE, <<>>, << "End the call." >>)

AiCritical == JValue("object", "critical", 90, TRUE, <<>>, << "End the call." >>)

\* A result whose guidance string holds one '```', written [fence] here.
AiFenceInGuidance ==
  JValue("object", "high", 90, TRUE, <<>>, << "Never type [fence] in a chat." >>)

\* A result whose guidance string holds '```1```'.
AiCodeInGuidance ==
  JValue("object", "high", 90, TRUE, <<>>, << "Reply [fence]1[fence] to stop." >>)

JValues ==
  { JNull, JNumber, AiHigh, AiPartial, AiEmptyIndicators, AiNoIndicators,
    AiDuplicate, AiUnknownId, AiScore150, AiHighScore10, AiCritical }

\* The AI's message content is a sequence of pieces: a '```json' marker, a
\* '```' marker, or a run of text that is the JSON text of a value or is not JSON.
\* The JSON text of a value with a '```' inside one of its strings is several
\* pieces: its beginning (Open), the markers and the text between them, and
\* its end (Close).
FenceJson == [tok |-> "fence_json", value |-> NotJson]

Fence == [tok |-> "fence", value |-> NotJson]

Text(value) == [tok |-> "text", value |-> value]

Open(value) == [tok |-> "open", value |-> value]

Close == [tok |-> "close", value |-> NotJson]

\* The JSON text of AiFenceInGuidance and of AiCodeInGuidance.
FenceInGuidanceText == << Open(AiFenceInGuidance), Fence, Close >>

CodeInGuidanceText == << Open(AiCodeInGuidance), Fence, Text(JNumber), Fence, Close >>

Contents ==
  { <<>>, << Text(NotJson) >> }
  \cup { << Text(v) >> : v \in JValues }
  \cup { << FenceJson, Text(AiHigh), Fence >>,
         << Fence, Text(AiHigh), Fence >>,
         << Text(NotJson), FenceJson, Text(AiPartial), Fence, Text(NotJson) >>,
         << Fence, Text(NotJson), Fence >>,
         << FenceJson, Text(NotJson) >>,
         << Fence >> }
  \cup { << FenceJson, Text(v), Fence >> : v \in {AiPartial, JNull} }
  \cup { << Fence, Text(v), Fence >> : v \in {AiPartial, JNull} }
  \cup { FenceInGuidanceText, CodeInGuidanceText }
  \cup { << f >> \o j \o << Fence >> :
            f \in {FenceJson, Fence}, j \in {FenceInGuidanceText, CodeInGuidanceText} }

\* The gateway's answer to the fetch: the promise rejects ("network"), or
\* resolves with a status and, when ok, a body whose choices[0].message.content
\* is a string (contentType "string"), another truthy value ("number") or absent,
\* or a body that is not JSON ("notjson"), whose text is kept in `body`.
NotContacted ==
  [kind |-> "none", status |-> 0, contentType |-> "absent", content |-> <<>>, body |-> ""]

Pending ==
  [kind |-> "pending", status |-> 0, contentType |-> "absent", content |-> <<>>, body |-> ""]

NetworkFailure ==
  [kind |-> "network", status |-> 0, contentType |-> "absent", content |-> <<>>, body |-> ""]

HttpReply(status, contentType, content) ==
  [kind |-> "http", status |-> status, contentType |-> contentType, content |-> content,
   body |-> ""]

\* A reply of status 200 whose body is the given text, which is not JSON.
NotJsonReply(text) ==
  [kind |-> "http", status |-> 200, contentType |-> "notjson", content |-> <<>>,
   body |-> text]

\* The message of the SyntaxError with which req.json() and response.json()
\* reject, for each body of the model that is not JSON: the engine names the
\* first character it cannot read and quotes the body, or its first ten
\* characters when the body is longer than twenty.
JsonSyntaxError ==
  [text \in {"", "not json", "<html>bad gateway</html>"} |->
     IF text = "" THEN "Unexpected end of JSON input"
     ELSE IF text = "not json"
       THEN "Unexpected token 'o', \"not json\" is not valid JSON"
     ELSE "Unexpected token '<', \"<html>bad \"... is not valid JSON"]

FailureStatuses == {429, 402, 500, 503}

\* The replies of the gateway.  A reply of status 200 has a body that is not
\* JSON (an HTML page, or no body at all), the JSON null ("null"), or an object
\* whose choices[0].message.content is absent, a number or a string.
Replies ==
  { NetworkFailure }
  \cup { HttpReply(s, "absent", <<>>) : s \in FailureStatuses }
  \cup { HttpReply(200, "string", c) : c \in Contents }
  \cup { HttpReply(200, "absent", <<>>), HttpReply(200, "number", <<>>),
         HttpReply(200, "null", <<>>),
         NotJsonReply("<html>bad gateway</html>"), NotJsonReply("") }

\* A request: its method, its body ("object" for the JSON text of an object,
\* "null" for the JSON null, and otherwise a text that is not JSON, "" when the
\* request has no body), and the transcript member of the object: absent, a
\* string, or a truthy value that is not a string ("number").
Request(method, body, hasTranscript, transcriptType, transcript) ==
  [method |-> method, body |-> body, hasTranscript |-> hasTranscript,
   transcriptType |-> transcriptType, transcript |-> transcript]

NoRequest == Request("none", "", FALSE, "string", <<>>)

Post(transcript) == Request("POST", "object", TRUE, "string", transcript)

Requests ==
  { Request("OPTIONS", "", FALSE, "string", <<>>),
    Request("GET", "", FALSE, "string", <<>>),
    Request("POST", "not json", FALSE, "string", <<>>),
    Request("POST", "null", FALSE, "string", <<>>),
    Request("POST", "object", FALSE, "string", <<>>),
    Request("POST", "object", TRUE, "number", <<>>) }
  \cup { Post(t) : t \in ServeTranscripts }

NoResult ==
  [riskLevel |-> "null", riskScore |-> 0, indicators |-> <<>>, guidance |-> <<>>]

NoResponse == [status |-> 0, error |-> "", result |-> NoResult]

\* new Response(JSON.stringify({ error }), { status })
ErrorResponse(status, error) == [status |-> status, error |-> error, result |-> NoResult]

\* new Response(JSON.stringify(result), ...): status 200
ResultResponse(result) == [status |-> 200, error |-> "", result |-> result]

\* new Response(null, { headers: corsHeaders })
EmptyResponse == [status |-> 200, error |-> "", result |-> NoResult]

\* Bound: the calls of the handler that are under way at any one time.
MaxRequests == 2

RequestIds == 1..MaxRequests

\* A call of the handler: pc is "idle" before the call, "json" while it awaits
\* req.json(), "fetch" while it awaits the fetch, "text" and "body" while it
\* awaits response.text() and response.json(), "done" once it has returned.
Handler(pc, r, reply, response) ==
  [pc |-> pc, req |-> r, upstream |-> reply, res |-> response]

IdleHandler == Handler("idle", NoRequest, NotContacted, NoResponse)

\* The edge function is idle: no key, no request.
ServeIdle ==
  /\ LOVABLE_API_KEY = FALSE
  /\ handlers = [id \in RequestIds |-> IdleHandler]

NullAnalysis ==
  [riskLevel |-> "null", riskScore |-> 0, indicators |-> <<>>, guidance |-> <<>>]

NullTimer == [kind |-> "null", session |-> 0, armedWith |-> <<>>]

Timer(kind, session, armedWith) ==
  [kind |-> kind, session |-> session, armedWith |-> armedWith]

\* The variant of analyzeTranscript that awaits a network call before setAnalysis.
AnalyzeTranscriptAwaitsNetwork == TRUE

\* analyzeTranscript has no await before setAnalysis: the result is published
\* before the call returns and the promise it returns is already resolved.
AnalyzeTranscriptSuspends == FALSE

\* A timer callback is a task of its own: it runs only when no await
\* continuation is runnable, since the continuations of resolved promises run
\* before the next task.
TaskMayRun == AnalyzeTranscriptSuspends \/ awaiting = <<>>

\* A call of the hook by its consumer: a consumer that has called stopAnalysis
\* or analyzeTranscript without awaiting it makes its next call before their
\* continuations run.  The continuation of a timer callback is runnable as soon
\* as the callback returns, and runs before any consumer can call.
CallMayRun ==
  \/ AnalyzeTranscriptSuspends
  \/ \A i \in DOMAIN awaiting : awaiting[i].owner \in {"caller", "stopAnalysis"}

\* The record analyzeTranscript publishes for each transcript of the model,
\* tabulated once.
RuleResults ==
  [l \in Languages |->
     [t \in Transcripts \cup InitialTranscripts \cup ClientTranscripts \cup LiveTranscripts |->
        ruleBasedScamAnalysis(t, l)] @@ <<>>] @@ <<>>

\* The record the hook publishes for a transcript.
AnalysisOf(transcript) == RuleResults[language][transcript]

\* The placeholder result of analyzeAudio.
PlaceholderAnalysis ==
  [riskLevel |-> "medium",
   riskScore |-> 50,
   indicators |-> [i \in 1..Len(scamPatterns) |-> Indicator(scamPatterns[i], FALSE)],
   guidance |-> getLocalizedGuidance("medium", language)]

\* The placeholder of analyzeAudio in place of the baseline.
BaselineAnalysisPlaceholder == PlaceholderAnalysis

\* The initial safe state published by startAnalysis.
BaselineAnalysis ==
  [riskLevel |-> "low",
   riskScore |-> 0,
   indicators |-> [i \in 1..Len(scamPatterns) |-> Indicator(scamPatterns[i], FALSE)],
   guidance |-> getLocalizedGuidance("low", language)]

Step(op, timer, arg, dispatched) ==
  [op |-> op, timer |-> timer, arg |-> arg, dispatched |-> dispatched,
   prevTranscript |-> transcriptRef, prevAnalyzed |-> lastAnalyzedLengthRef,
   awaitingBefore |-> Len(awaiting)]

\* analyzeTranscript(transcript), called by `owner`, which then awaits it.
Dispatch(transcript, owner) ==
  /\ analysis' = IF AnalyzeTranscriptSuspends THEN analysis ELSE AnalysisOf(transcript)
  /\ awaiting' = Append(awaiting, [owner |-> owner, snapshot |-> transcript])
  /\ lastStarted' = <<transcript>>

NoDispatch == UNCHANGED <<analysis, awaiting, lastStarted>>

\* The hook after its first render.
HookInit ==
  /\ isAnalyzing = FALSE
  /\ analysis = NullAnalysis
  /\ transcriptRef = <<>>
  /\ lastAnalyzedLengthRef = 0
  /\ firstCheckTimeoutRef = NullTimer
  /\ intervalRef = NullTimer
  /\ debounceRef = NullTimer
  /\ timers = {}
  /\ awaiting = <<>>
  /\ sessions = 0
  /\ stopped = 0
  /\ lastStarted = <<>>
  /\ language \in Languages
  /\ mounted = TRUE
  /\ audioDelays = <<>>
  /\ last = [op |-> "init", timer |-> NullTimer, arg |-> <<>>, dispatched |-> <<>>,
             prevTranscript |-> <<>>, prevAnalyzed |-> 0,
             awaitingBefore |-> 0]

\* No call record has been handed to onCallComplete.
NoRecord ==
  [duration |-> "none", riskLevel |-> "none", riskScore |-> 0, indicators |-> <<>>]

\* The recorder hook and MonitorView after their first render.
ViewIdle ==
  /\ isRecording = FALSE
  /\ isPaused = FALSE
  /\ recorderError = ""
  /\ liveTranscript = <<>>
  /\ isRecordingRef = FALSE
  /\ isPausedRef = FALSE
  /\ mediaRecorderRef = 0
  /\ recognitionRef = 0
  /\ mediaRecorders = [id \in 1..MaxRecordings |-> "none"]
  /\ recognitions = [id \in 1..MaxRecordings |-> "none"]
  /\ gettingUserMedia = 0
  /\ recordings = 0
  /\ SpeechRecognition = TRUE
  /\ lastRec = [op |-> "init", id |-> 0]
  /\ startTimeRef = FALSE
  /\ effectDue = FALSE
  /\ callRecord = NoRecord

Init == HookInit /\ ServeIdle /\ ViewIdle

\* The session of the latest warm-up timeout pending among `pending`, up to
\* session n; 0 when there is none.
LatestWarmup(pending, n) ==
  LET earlier == {tm.session : tm \in {x \in pending : x.kind = "warmup" /\ x.session <= n}}
  IN IF earlier = {} THEN 0 ELSE CHOOSE m \in earlier : \A k \in earlier : k <= m

\* The delays of analyzeAudio once the timers `pending` are the ones left.
AudioDelaysAfter(pending) ==
  [i \in DOMAIN audioDelays |-> LatestWarmup(pending, audioDelays[i])]

startAnalysis(initialTranscript) ==
  LET warmup == Timer("warmup", sessions + 1, <<>>)
      interval == Timer("interval", sessions + 1, <<>>)
  IN /\ sessions < MaxStarts
     /\ CallMayRun
     /\ isAnalyzing' = TRUE
     /\ transcriptRef' = initialTranscript
     /\ lastAnalyzedLengthRef' = 0
     /\ analysis' = BaselineAnalysis
     /\ firstCheckTimeoutRef' = warmup
     /\ intervalRef' = interval
     /\ timers' = timers \cup {warmup, interval}
     /\ sessions' = sessions + 1
     /\ lastStarted' = <<>>
     /\ last' = Step("startAnalysis", NullTimer, initialTranscript, <<>>)
     /\ UNCHANGED <<debounceRef, awaiting, stopped, serveVars,
                   language, mounted, audioDelays>>

\* A check that dispatches whenever the transcript has the minimum length,
\* analyzed before or not.
runIntervalCheckAnyLength(op, timer) ==
  LET currentTranscript == transcriptRef
  IN IF Len(currentTranscript) >= ANALYZE_THRESHOLD
       THEN /\ lastAnalyzedLengthRef' = Len(currentTranscript)
            /\ Dispatch(currentTranscript, "runIntervalCheck")
            /\ last' = Step(op, timer, <<>>, <<currentTranscript>>)
       ELSE /\ NoDispatch
            /\ last' = Step(op, timer, <<>>, <<>>)
            /\ UNCHANGED lastAnalyzedLengthRef

\* The body of runIntervalCheck, up to its await.
runIntervalCheck(op, timer) ==
  LET currentTranscript == transcriptRef
  IN IF /\ Len(currentTranscript) >= ANALYZE_THRESHOLD
        /\ Len(currentTranscript) > lastAnalyzedLengthRef
       THEN /\ lastAnalyzedLengthRef' = Len(currentTranscript)
            /\ Dispatch(currentTranscript, "runIntervalCheck")
            /\ last' = Step(op, timer, <<>>, <<currentTranscript>>)
       ELSE /\ NoDispatch
            /\ last' = Step(op, timer, <<>>, <<>>)
            /\ UNCHANGED lastAnalyzedLengthRef

\* The warm-up timeout expires; timeouts of the same delay expire in the order
\* they were set.
WarmupFire ==
  \E tm \in timers :
    /\ tm.kind = "warmup"
    /\ \A other \in timers : other.kind = "warmup" => other.session >= tm.session
    /\ \A i \in DOMAIN audioDelays : audioDelays[i] >= tm.session
    /\ TaskMayRun
    /\ timers' = timers \ {tm}
    /\ runIntervalCheck("warmup", tm)
    /\ audioDelays' = AudioDelaysAfter(timers \ {tm})
    /\ UNCHANGED <<isAnalyzing, transcriptRef, firstCheckTimeoutRef, intervalRef,
                   debounceRef, sessions, stopped, serveVars, language, mounted>>

\* A recurring check scheduled as a timeout: it is gone once it has run.
IntervalFireOnce ==
  \E tm \in timers :
    /\ tm.kind = "interval"
    /\ Timer("warmup", tm.session, <<>>) \notin timers
    /\ TaskMayRun
    /\ timers' = timers \ {tm}
    /\ runIntervalCheck("interval", tm)
    /\ UNCHANGED <<isAnalyzing, transcriptRef, firstCheckTimeoutRef, intervalRef,
                   debounceRef, sessions, stopped, serveVars,
                   language, mounted, audioDelays>>

\* The recurring interval ticks; the tick of an interval comes after the
\* warm-up timeout scheduled with it (2000 ms against 3000 ms).
IntervalFire ==
  \E tm \in timers :
    /\ tm.kind = "interval"
    /\ Timer("warmup", tm.session, <<>>) \notin timers
    /\ TaskMayRun
    /\ runIntervalCheck("interval", tm)
    /\ UNCHANGED <<isAnalyzing, transcriptRef, firstCheckTimeoutRef, intervalRef,
                   debounceRef, timers, sessions, stopped, serveVars,
                   language, mounted, audioDelays>>

\* The body of updateTranscript: it stores the transcript and re-arms the
\* debounce timeout.
StoreTranscript(newTranscript) ==
  LET armed == Timer("debounce", IF isAnalyzing THEN sessions ELSE 0, newTranscript)
  IN /\ transcriptRef' = newTranscript
     /\ IF Len(Trim(newTranscript)) >= DebounceThreshold
          THEN /\ timers' = (timers \ {debounceRef}) \cup {armed}
               /\ debounceRef' = armed
          ELSE UNCHANGED <<timers, debounceRef>>

updateTranscript(newTranscript) ==
     /\ CallMayRun
     /\ StoreTranscript(newTranscript)
     /\ NoDispatch
     /\ last' = Step("updateTranscript", NullTimer, newTranscript, <<>>)
     /\ UNCHANGED <<isAnalyzing, lastAnalyzedLengthRef, firstCheckTimeoutRef,
                    intervalRef, sessions, stopped, serveVars,
                   language, mounted, audioDelays>>

\* The newTranscript of the call that armed the timer.
DebounceSnapshotArmed(tm) == tm.armedWith

\* The transcript the debounce callback analyzes: transcriptRef.current when the
\* timer fires.
DebounceSnapshot(tm) == transcriptRef

\* The debounce timeout expires.
DebounceFire ==
  \E tm \in timers :
    /\ tm.kind = "debounce"
    /\ TaskMayRun
    /\ timers' = timers \ {tm}
    /\ debounceRef' = NullTimer
    /\ LET current == DebounceSnapshot(tm)
       IN IF Len(current) > lastAnalyzedLengthRef
            THEN /\ lastAnalyzedLengthRef' = Len(current)
                 /\ Dispatch(current, "debounce")
                 /\ last' = Step("debounce", tm, <<>>, <<current>>)
            ELSE /\ NoDispatch
                 /\ last' = Step("debounce", tm, <<>>, <<>>)
                 /\ UNCHANGED lastAnalyzedLengthRef
    /\ UNCHANGED <<isAnalyzing, transcriptRef, firstCheckTimeoutRef, intervalRef,
                   sessions, stopped, serveVars,
                   language, mounted, audioDelays>>

\* A direct call of analyzeTranscript by a consumer of the hook.
analyzeTranscript(transcript) ==
  /\ Len(awaiting) < MaxAwaiting
  /\ CallMayRun
  /\ Dispatch(transcript, "caller")
  /\ last' = Step("analyzeTranscript", NullTimer, transcript, <<transcript>>)
  /\ UNCHANGED <<isAnalyzing, transcriptRef, lastAnalyzedLengthRef, firstCheckTimeoutRef,
                 intervalRef, debounceRef, timers, sessions, stopped, serveVars,
                   language, mounted, audioDelays>>

\* The condition of the periodic check, used for the final analysis.
FinalAnalysisDueIfNew(finalTranscript) ==
  /\ Len(finalTranscript) >= FinalThreshold
  /\ Len(finalTranscript) > lastAnalyzedLengthRef

\* The condition of the final analysis of stopAnalysis.
FinalAnalysisDue(finalTranscript) == Len(finalTranscript) >= FinalThreshold

\* The last two statements of stopAnalysis.
StopCleanup ==
  /\ transcriptRef' = <<>>
  /\ lastAnalyzedLengthRef' = 0

\* stopAnalysis, up to its await (or to its end when there is no final analysis).
stopAnalysis ==
  LET finalTranscript == transcriptRef
  IN /\ FinalAnalysisDue(finalTranscript) => Len(awaiting) < MaxAwaiting
     /\ CallMayRun
     /\ isAnalyzing' = FALSE
     /\ timers' = timers \ {debounceRef, firstCheckTimeoutRef, intervalRef}
     /\ debounceRef' = NullTimer
     /\ firstCheckTimeoutRef' = NullTimer
     /\ intervalRef' = NullTimer
     /\ stopped' = sessions
     /\ IF FinalAnalysisDue(finalTranscript)
          THEN /\ Dispatch(finalTranscript, "stopAnalysis")
               /\ last' = Step("stopAnalysis", NullTimer, <<>>, <<finalTranscript>>)
               /\ UNCHANGED <<transcriptRef, lastAnalyzedLengthRef>>
          ELSE /\ NoDispatch
               /\ StopCleanup
               /\ last' = Step("stopAnalysis", NullTimer, <<>>, <<>>)
     /\ audioDelays' =
          AudioDelaysAfter(timers \ {debounceRef, firstCheckTimeoutRef, intervalRef})
     /\ UNCHANGED <<sessions, serveVars, language, mounted>>

Remove(seq, i) == SubSeq(seq, 1, i - 1) \o SubSeq(seq, i + 1, Len(seq))

\* A suspended caller resumes after its await.
ResumeAfterAwait ==
  \E i \in DOMAIN awaiting :
    LET resumed == awaiting[i]
    IN /\ AnalyzeTranscriptSuspends \/ i = 1
       /\ awaiting' = Remove(awaiting, i)
       /\ analysis' = IF AnalyzeTranscriptSuspends THEN AnalysisOf(resumed.snapshot) ELSE analysis
       /\ IF resumed.owner = "stopAnalysis"
            THEN StopCleanup
            ELSE UNCHANGED <<transcriptRef, lastAnalyzedLengthRef>>
       /\ last' = Step(IF resumed.owner = "stopAnalysis" THEN "stopAnalysisResumed" ELSE "resumed",
                       NullTimer, <<>>, <<>>)
       /\ UNCHANGED <<isAnalyzing, firstCheckTimeoutRef, intervalRef, debounceRef,
                      timers, sessions, stopped, lastStarted, serveVars,
                   language, mounted, audioDelays>>

\* analyzeAudio, up to its await: it sets a two-second timeout whose handle it
\* keeps nowhere.
analyzeAudio ==
  /\ Len(audioDelays) < MaxAudioDelays
  /\ CallMayRun
  /\ audioDelays' = Append(audioDelays, LatestWarmup(timers, sessions))
  /\ NoDispatch
  /\ last' = Step("analyzeAudio", NullTimer, <<>>, <<>>)
  /\ UNCHANGED <<isAnalyzing, transcriptRef, lastAnalyzedLengthRef, firstCheckTimeoutRef,
                 intervalRef, debounceRef, timers, sessions, stopped, serveVars,
                 language, mounted>>

\* The delay of analyzeAudio expires and analyzeAudio resumes: it publishes the
\* placeholder.  Timeouts of the same delay expire in the order they were set,
\* so the delay comes after the warm-up timeouts set before it.
AudioDelayFire ==
  /\ audioDelays # <<>>
  /\ \A tm \in timers : tm.kind = "warmup" => tm.session > Head(audioDelays)
  /\ TaskMayRun
  /\ audioDelays' = Tail(audioDelays)
  /\ analysis' = PlaceholderAnalysis
  /\ lastStarted' = <<>>
  /\ last' = Step("audioDelay", NullTimer, <<>>, <<>>)
  /\ UNCHANGED <<isAnalyzing, transcriptRef, lastAnalyzedLengthRef, firstCheckTimeoutRef,
                 intervalRef, debounceRef, timers, awaiting, sessions, stopped,
                 serveVars, language, mounted>>

\* The cleanup of the hook's effect, run when the component unmounts: it
\* clears the timers the three refs hold and leaves the refs as they are.
unmount ==
  /\ mounted
  /\ CallMayRun
  /\ mounted' = FALSE
  /\ timers' = timers \ {debounceRef, firstCheckTimeoutRef, intervalRef}
  /\ NoDispatch
  /\ last' = Step("unmount", NullTimer, <<>>, <<>>)
  /\ UNCHANGED <<isAnalyzing, transcriptRef, lastAnalyzedLengthRef, firstCheckTimeoutRef,
                 intervalRef, debounceRef, sessions, stopped, serveVars, language>>
  /\ audioDelays' =
       AudioDelaysAfter(timers \ {debounceRef, firstCheckTimeoutRef, intervalRef})

Next ==
  \/ (\E t \in InitialTranscripts : startAnalysis(t)) /\ UNCHANGED viewVars
  \/ WarmupFire /\ UNCHANGED viewVars
  \/ IntervalFire /\ UNCHANGED viewVars
  \/ (\E t \in UpdateTranscripts : updateTranscript(t)) /\ UNCHANGED viewVars
  \/ DebounceFire /\ UNCHANGED viewVars
  \/ (\E t \in DirectTranscripts : analyzeTranscript(t)) /\ UNCHANGED viewVars
  \/ stopAnalysis /\ UNCHANGED viewVars
  \/ ResumeAfterAwait /\ UNCHANGED viewVars
  \/ analyzeAudio /\ UNCHANGED viewVars
  \/ AudioDelayFire /\ UNCHANGED viewVars
  \/ unmount /\ UNCHANGED viewVars

Spec == Init /\ [][Next]_vars

\* The runtime runs the warm-up timeout, the ticks of the interval, the delay
\* of analyzeAudio and every await continuation.  The debounce timeout has no
\* such guarantee: every call of updateTranscript that meets the threshold
\* clears it and sets it anew, so calls that keep coming keep it from expiring.
LiveSpec ==
  /\ Spec
  /\ SF_vars(WarmupFire /\ UNCHANGED viewVars)
  /\ SF_vars(IntervalFire /\ UNCHANGED viewVars)
  /\ SF_vars(AudioDelayFire /\ UNCHANGED viewVars)
  /\ WF_vars(ResumeAfterAwait /\ UNCHANGED viewVars)

(***************************************************************************)
(* The edge function analyze-scam: the request handler.                    *)
(***************************************************************************)
\* A validation that does not trim: only a missing or empty transcript.
NoTranscriptProvidedUntrimmed(r) == ~r.hasTranscript \/ Len(r.transcript) = 0

\* !transcript || transcript.trim().length === 0
NoTranscriptProvided(r) ==
  \/ ~r.hasTranscript
  \/ Len(r.transcript) = 0
  \/ Len(Trim(r.transcript)) = 0

\* patterns.find((p) => p.id === type): the index of the first rule of that id,
\* or 0 when there is none.
FindPattern(type) ==
  LET ks == {k \in 1..Len(edgePatterns) : edgePatterns[k].id = type}
  IN IF ks = {} THEN 0 ELSE CHOOSE k \in ks : \A j \in ks : k <= j

\* detected = pattern ? pattern.keywords.some((kw) => text.includes(kw)) : false
Detected(text, type) ==
  LET k == FindPattern(type)
  IN IF k = 0 THEN FALSE ELSE Found(text, edgePatterns[k])

RECURSIVE EdgeScore(_, _)
\* riskScore after the map callback has run for the first n indicator types
EdgeScore(text, n) ==
  IF n = 0 THEN 0
  ELSE EdgeScore(text, n - 1)
       + (IF Detected(text, indicatorTypes[n])
            THEN edgePatterns[FindPattern(indicatorTypes[n])].weight ELSE 0)

\* The guidance of the rule branch: one string per level.
EdgeGuidance(riskLevel) ==
  IF riskLevel = "high" THEN << "HIGH RISK - Do not share OTP. End call immediately." >>
  ELSE IF riskLevel = "medium" THEN << "Be cautious. Verify caller identity." >>
  ELSE << "Call appears safe." >>

\* The rule branch of the handler, taken when no API key is set.
serveRuleBranch(text) ==
  LET indicators ==
        [i \in 1..Len(indicatorTypes) |->
           Indicator(indicatorTypes[i], Detected(text, indicatorTypes[i]))]
      riskScore == Min2(100, EdgeScore(text, Len(indicatorTypes)))
      riskLevel == LevelOf(riskScore)
  IN [riskLevel |-> riskLevel,
      riskScore |-> IF riskLevel = "high" THEN Max2(riskScore, HighFloor) ELSE riskScore,
      indicators |-> indicators,
      guidance |-> EdgeGuidance(riskLevel)]

\* The rule branch's result for each transcript of the model, tabulated once.
EdgeRuleResults ==
  [t \in ServeTranscripts |-> serveRuleBranch(Trim(ToLowerCase(t)))] @@ <<>>

Fences == {"fence", "fence_json"}

\* content.includes(marker)
HasToken(content, toks) == \E i \in DOMAIN content : content[i].tok \in toks

FirstIndex(content, toks) ==
  CHOOSE i \in DOMAIN content :
    /\ content[i].tok \in toks
    /\ \A j \in 1..(i - 1) : content[j].tok \notin toks

\* content.split(marker)[1].split('```')[0]: what follows the first marker, up
\* to the next fence of either kind.
Fenced(content, toks) ==
  LET rest == SubSeq(content, FirstIndex(content, toks) + 1, Len(content))
  IN IF HasToken(rest, Fences)
       THEN SubSeq(rest, 1, FirstIndex(rest, Fences) - 1)
       ELSE rest

\* jsonStr: the text handed to JSON.parse.
JsonStr(content) ==
  IF HasToken(content, {"fence_json"}) THEN Fenced(content, {"fence_json"})
  ELSE IF HasToken(content, Fences) THEN Fenced(content, {"fence"})
  ELSE content

\* JSON.parse returns a value: the text is the JSON text of one value.
Parses(str) ==
  \/ Len(str) = 1 /\ str[1].tok = "text" /\ str[1].value.kind # "garbage"
  \/ /\ Len(str) >= 3
     /\ str[1].tok = "open"
     /\ str[Len(str)].tok = "close"
     /\ \A i \in 2..(Len(str) - 1) : str[i].tok \in Fences \cup {"text"}

\* A fallback that reports the call as safe.
SafeDefault == JValue("object", "low", 0, TRUE, <<>>, << "Call appears safe." >>)

\* The safe defaults assigned when JSON.parse throws.
NeutralDefault ==
  JValue("object", "medium", 50, TRUE, <<>>,
         << "Unable to fully analyze. Please be cautious." >>)

\* The try/catch around the extraction and JSON.parse.
ParseAnalysis(content) ==
  IF Parses(JsonStr(content)) THEN JsonStr(content)[1].value ELSE NeutralDefault

\* The loop that pushes an undetected indicator for every type not yet present.
Backfill(indicators) ==
  LET existingIds == {indicators[i].id : i \in DOMAIN indicators}
      Missing(type) == type \notin existingIds
      missing == SelectSeq(indicatorTypes, Missing)
  IN indicators \o [i \in 1..Len(missing) |-> AiIndicator(missing[i], FALSE, 0)]

\* response.ok
Ok(status) == status >= 200 /\ status <= 299

\* `AI gateway error: ${response.status}`
GatewayError ==
  [s \in FailureStatuses |->
     CASE s = 429 -> "AI gateway error: 429"
       [] s = 402 -> "AI gateway error: 402"
       [] s = 500 -> "AI gateway error: 500"
       [] s = 503 -> "AI gateway error: 503"]

\* A throw that nothing catches: the handler rejects and returns no response.
Uncaught(message) == [status |-> 0, error |-> message, result |-> NoResult]

\* The catch of the handler: status 500 with the error's message.
Caught(message) == ErrorResponse(500, message)

\* Every upstream failure thrown to the catch: status 500.
UpstreamErrorThrown(status) == ErrorResponse(500, GatewayError[status])

\* The branch taken when response.ok is false.
UpstreamError(status) ==
  IF status = 429
    THEN ErrorResponse(429, "Rate limit exceeded. Please try again in a moment.")
  ELSE IF status = 402
    THEN ErrorResponse(402, "Usage limit reached. Please check your account.")
  ELSE Caught(GatewayError[status])

\* The handler from the settling of the fetch to its response; every throw ends
\* in the catch that answers 500 with the error's message.
AfterFetch(reply) ==
  IF reply.kind = "network" THEN Caught("fetch failed")
  ELSE IF ~Ok(reply.status) THEN UpstreamError(reply.status)
  ELSE IF reply.contentType = "notjson" THEN Caught(JsonSyntaxError[reply.body])
  ELSE IF reply.contentType = "null"
    THEN Caught("Cannot read properties of null (reading 'choices')")
  ELSE IF reply.contentType # "string" \/ reply.content = <<>>
    THEN Caught("AI did not return analysis")
  ELSE LET parsed == ParseAnalysis(reply.content)
       IN IF parsed.kind = "null"
            THEN Caught("Cannot read properties of null (reading 'indicators')")
          ELSE IF ~parsed.hasIndicators
            THEN Caught("Cannot read properties of undefined (reading 'map')")
          ELSE ResultResponse([riskLevel |-> parsed.riskLevel,
                               riskScore |-> parsed.riskScore,
                               indicators |-> Backfill(parsed.indicators),
                               guidance |-> parsed.guidance])

\* The handler from the settling of req.json() to the fetch: the response it
\* returns, or NoResponse when it calls the gateway.
BeforeFetch(r) ==
  IF r.body \in DOMAIN JsonSyntaxError THEN Caught(JsonSyntaxError[r.body])
  ELSE IF r.body = "null"
    THEN Caught("Cannot destructure property 'transcript' of '(intermediate value)' as it is null.")
  ELSE IF r.hasTranscript /\ r.transcriptType # "string"
    THEN Caught("transcript.trim is not a function")
  ELSE IF NoTranscriptProvided(r) THEN ErrorResponse(400, "No transcript provided")
  ELSE IF ~LOVABLE_API_KEY THEN ResultResponse(EdgeRuleResults[r.transcript])
  ELSE NoResponse

\* The handler is called with a request: it answers OPTIONS at once and
\* otherwise suspends at req.json().  Other calls run while it is suspended.
\* A call is numbered with the least number that no call under way has.
serve(id, r) ==
  /\ handlers[id].pc \in {"idle", "done"}
  /\ \A other \in 1..(id - 1) : handlers[other].pc \notin {"idle", "done"}
  /\ handlers' =
       [handlers EXCEPT ![id] =
          IF r.method = "OPTIONS"
            THEN Handler("done", r, NotContacted, EmptyResponse)
            ELSE Handler("json", r, NotContacted, NoResponse)]
  /\ UNCHANGED <<LOVABLE_API_KEY, hookVars>>

\* req.json() settles: the handler runs to a response or to its fetch.
serveAfterJson(id) ==
  /\ handlers[id].pc = "json"
  /\ LET response == BeforeFetch(handlers[id].req)
     IN handlers' =
          [handlers EXCEPT ![id] =
             IF response = NoResponse
               THEN [@ EXCEPT !.pc = "fetch", !.upstream = Pending]
               ELSE [@ EXCEPT !.pc = "done", !.res = response]]
  /\ UNCHANGED <<LOVABLE_API_KEY, hookVars>>

\* The transcript of the requests whose fetch is answered with every reply of
\* the model; the fetch of any other request is answered with a few of them.
ProbeTranscript == TShareYourOtp

\* The replies the gateway gives to a request.
RepliesTo(r) ==
  IF r.transcript = ProbeTranscript THEN Replies
  ELSE { NetworkFailure, HttpReply(429, "absent", <<>>),
         HttpReply(200, "string", << Text(AiHigh) >>) }

\* The fetch settles: it rejects, and the catch answers, or it resolves with a
\* Response whose body the handler then awaits.
serveAfterFetch(id, reply) ==
  /\ handlers[id].pc = "fetch"
  /\ reply \in RepliesTo(handlers[id].req)
  /\ handlers' =
       [handlers EXCEPT ![id] =
          IF reply.kind = "network"
            THEN [@ EXCEPT !.pc = "done", !.upstream = reply, !.res = AfterFetch(reply)]
          ELSE IF Ok(reply.status)
            THEN [@ EXCEPT !.pc = "body", !.upstream = reply]
          ELSE [@ EXCEPT !.pc = "text", !.upstream = reply]]
  /\ UNCHANGED <<LOVABLE_API_KEY, hookVars>>

\* response.text() settles in the branch of a reply that is not ok.
serveAfterText(id) ==
  /\ handlers[id].pc = "text"
  /\ handlers' =
       [handlers EXCEPT ![id] = [@ EXCEPT !.pc = "done", !.res = AfterFetch(handlers[id].upstream)]]
  /\ UNCHANGED <<LOVABLE_API_KEY, hookVars>>

\* response.json() settles and the handler runs to its response.
serveAfterBody(id) ==
  /\ handlers[id].pc = "body"
  /\ handlers' =
       [handlers EXCEPT ![id] = [@ EXCEPT !.pc = "done", !.res = AfterFetch(handlers[id].upstream)]]
  /\ UNCHANGED <<LOVABLE_API_KEY, hookVars>>

\* The edge function is deployed with or without a key.  The hook takes no
\* step beside it, so one language stands for both.
ServeInit ==
  /\ HookInit
  /\ language = "en"
  /\ ViewIdle
  /\ LOVABLE_API_KEY \in BOOLEAN
  /\ handlers = [id \in RequestIds |-> IdleHandler]

ServeNext ==
  \/ (\E id \in RequestIds, r \in Requests : serve(id, r)) /\ UNCHANGED viewVars
  \/ (\E id \in RequestIds : serveAfterJson(id)) /\ UNCHANGED viewVars
  \/ (\E id \in RequestIds, reply \in Replies : serveAfterFetch(id, reply))
       /\ UNCHANGED viewVars
  \/ (\E id \in RequestIds : serveAfterText(id)) /\ UNCHANGED viewVars
  \/ (\E id \in RequestIds : serveAfterBody(id)) /\ UNCHANGED viewVars

\* Requests to the edge function, served side by side.
ServeSpec == ServeInit /\ [][ServeNext]_vars

\* The edge function without a key beside the client scorer.
RuleInit ==
  /\ HookInit
  /\ ViewIdle
  /\ LOVABLE_API_KEY = FALSE
  /\ handlers = [id \in RequestIds |-> IdleHandler]

\* No call of the edge function is under way.
EdgeQuiet == \A id \in RequestIds : handlers[id].pc \in {"idle", "done"}

RuleNext ==
  \/ (\E id \in RequestIds, r \in Requests : EdgeQuiet /\ serve(id, r)) /\ UNCHANGED viewVars
  \/ (\E id \in RequestIds : serveAfterJson(id)) /\ UNCHANGED viewVars
  \/ (\E t \in ClientTranscripts : analyzeTranscript(t)) /\ UNCHANGED viewVars
  \/ ResumeAfterAwait /\ UNCHANGED viewVars

\* Requests to the rule branch of the edge function, sent one at a time, and
\* direct calls of the client scorer.
RuleSpec == RuleInit /\ [][RuleNext]_vars

(***************************************************************************)
(* The recorder hook useAudioRecorder.                                     *)
(***************************************************************************)
\* The message set when getUserMedia rejects or the setup throws.
MicrophoneError ==
  "Could not access microphone. Please allow microphone access and try again."

SpeechUnsupportedError ==
  "Speech recognition not supported in this browser. Using basic analysis."

\* messages['not-allowed']
PermissionDeniedError == "Microphone permission denied. Please allow access."

\* The messages of recognition.onerror, by error code.
messages ==
  ("not-allowed" :> PermissionDeniedError) @@
  ("audio-capture" :> "No microphone found or microphone in use by another app.") @@
  ("network" :> "Network required for speech recognition. Check your connection.") @@
  ("service-not-allowed" :>
     "Speech recognition service blocked. Try a different browser.") @@
  ("language-not-supported" :>
     "Speech language not supported. Try speaking in English.")

\* The message of an error code that is not in the table.
DefaultRecognitionError == "Speech recognition error. Analysis may be limited."

\* The error codes recognition.onerror is called with here: the two it
\* ignores, two of the table, and one the table does not hold.
RecognitionErrors == {"no-speech", "aborted", "not-allowed", "network", "bad-grammar"}

RecStep(op, id) == [op |-> op, id |-> id]

\* recognition.stop(): a running recognition stops and ends later.
Stopped(id) ==
  IF id # 0 /\ recognitions[id] = "running"
    THEN [recognitions EXCEPT ![id] = "stopping"]
    ELSE recognitions

\* recognition.start() inside try/catch: it throws, and nothing changes, unless
\* the recognition has ended.
Started(id) ==
  IF id # 0 /\ recognitions[id] = "idle"
    THEN [recognitions EXCEPT ![id] = "running"]
    ELSE recognitions

\* startRecording, up to its await of getUserMedia.
startRecording ==
  /\ recordings < MaxRecordings
  /\ recordings' = recordings + 1
  /\ gettingUserMedia' = gettingUserMedia + 1
  /\ recorderError' = ""
  /\ liveTranscript' = <<>>
  /\ lastRec' = RecStep("startRecording", 0)
  /\ UNCHANGED <<isRecording, isPaused, isRecordingRef, isPausedRef, mediaRecorderRef,
                 recognitionRef, mediaRecorders, recognitions, SpeechRecognition>>

\* startRecording from the settling of getUserMedia to its end: the setup when
\* the stream is granted, the catch when it is not.
startRecordingResumes(granted) ==
  LET id == 1 + Cardinality({i \in DOMAIN mediaRecorders : mediaRecorders[i] # "none"})
  IN /\ gettingUserMedia > 0
     /\ gettingUserMedia' = gettingUserMedia - 1
     /\ IF granted
          THEN /\ mediaRecorders' = [mediaRecorders EXCEPT ![id] = "recording"]
               /\ mediaRecorderRef' = id
               /\ IF SpeechRecognition
                    THEN /\ recognitions' = [recognitions EXCEPT ![id] = "running"]
                         /\ recognitionRef' = id
                         /\ UNCHANGED recorderError
                    ELSE /\ recorderError' = SpeechUnsupportedError
                         /\ UNCHANGED <<recognitions, recognitionRef>>
               /\ isRecording' = TRUE
               /\ isPaused' = FALSE
               /\ isRecordingRef' = TRUE
               /\ isPausedRef' = FALSE
               /\ lastRec' = RecStep("startRecordingResumes", id)
          ELSE /\ recorderError' = MicrophoneError
               /\ lastRec' = RecStep("startRecordingFailed", 0)
               /\ UNCHANGED <<isRecording, isPaused, isRecordingRef, isPausedRef,
                              mediaRecorderRef, recognitionRef, mediaRecorders, recognitions>>
     /\ UNCHANGED <<liveTranscript, recordings, SpeechRecognition>>

\* A stop that leaves the pause flags as they are.
stopRecordingKeepsPause ==
  /\ IF mediaRecorderRef # 0 /\ isRecording
       THEN /\ isRecordingRef' = FALSE
            /\ mediaRecorders' = [mediaRecorders EXCEPT ![mediaRecorderRef] = "stopping"]
            /\ isRecording' = FALSE
            /\ UNCHANGED <<isPaused, isPausedRef>>
       ELSE UNCHANGED <<isRecording, isPaused, isRecordingRef, isPausedRef, mediaRecorders>>
  /\ lastRec' = RecStep("stopRecording", mediaRecorderRef)
  /\ UNCHANGED <<recorderError, liveTranscript, mediaRecorderRef, recognitionRef,
                 recognitions, gettingUserMedia, recordings, SpeechRecognition>>

\* stopRecording: the MediaRecorder is stopped; its stop event comes later.
stopRecording ==
  /\ IF mediaRecorderRef # 0 /\ isRecording
       THEN /\ isRecordingRef' = FALSE
            /\ isPausedRef' = FALSE
            /\ mediaRecorders' = [mediaRecorders EXCEPT ![mediaRecorderRef] = "stopping"]
            /\ isRecording' = FALSE
            /\ isPaused' = FALSE
       ELSE UNCHANGED <<isRecording, isPaused, isRecordingRef, isPausedRef, mediaRecorders>>
  /\ lastRec' = RecStep("stopRecording", mediaRecorderRef)
  /\ UNCHANGED <<recorderError, liveTranscript, mediaRecorderRef, recognitionRef,
                 recognitions, gettingUserMedia, recordings, SpeechRecognition>>

pauseRecording ==
  /\ IF mediaRecorderRef # 0 /\ isRecording /\ ~isPaused
       THEN /\ mediaRecorders' = [mediaRecorders EXCEPT ![mediaRecorderRef] = "paused"]
            /\ isPaused' = TRUE
            /\ isPausedRef' = TRUE
            /\ recognitions' = Stopped(recognitionRef)
       ELSE UNCHANGED <<isPaused, isPausedRef, mediaRecorders, recognitions>>
  /\ lastRec' = RecStep("pauseRecording", mediaRecorderRef)
  /\ UNCHANGED <<isRecording, isRecordingRef, recorderError, liveTranscript, mediaRecorderRef,
                 recognitionRef, gettingUserMedia, recordings, SpeechRecognition>>

resumeRecording ==
  /\ IF mediaRecorderRef # 0 /\ isRecording /\ isPaused
       THEN /\ mediaRecorders' = [mediaRecorders EXCEPT ![mediaRecorderRef] = "recording"]
            /\ isPaused' = FALSE
            /\ isPausedRef' = FALSE
            /\ recognitions' = Started(recognitionRef)
       ELSE UNCHANGED <<isPaused, isPausedRef, mediaRecorders, recognitions>>
  /\ lastRec' = RecStep("resumeRecording", mediaRecorderRef)
  /\ UNCHANGED <<isRecording, isRecordingRef, recorderError, liveTranscript, mediaRecorderRef,
                 recognitionRef, gettingUserMedia, recordings, SpeechRecognition>>

\* mediaRecorder.onstop: the stop event of a stopped MediaRecorder; it stops
\* the recognition recognitionRef holds at that moment.
mediaRecorderOnstop(id) ==
  /\ mediaRecorders[id] = "stopping"
  /\ mediaRecorders' = [mediaRecorders EXCEPT ![id] = "inactive"]
  /\ recognitions' = Stopped(recognitionRef)
  /\ lastRec' = RecStep("mediaRecorder.onstop", id)
  /\ UNCHANGED <<isRecording, isPaused, isRecordingRef, isPausedRef, recorderError,
                 liveTranscript, mediaRecorderRef, recognitionRef, gettingUserMedia,
                 recordings, SpeechRecognition>>

\* recognition.onend: the recognition has ended, after stop() or on the
\* browser's own account; it restarts itself when the refs say recording and
\* not paused.
recognitionOnend(id) ==
  /\ recognitions[id] \in {"running", "stopping"}
  /\ recognitions' =
       [recognitions EXCEPT ![id] = IF isRecordingRef /\ ~isPausedRef THEN "running" ELSE "idle"]
  /\ lastRec' = RecStep("recognition.onend", id)
  /\ UNCHANGED <<isRecording, isPaused, isRecordingRef, isPausedRef, recorderError,
                 liveTranscript, mediaRecorderRef, recognitionRef, mediaRecorders,
                 gettingUserMedia, recordings, SpeechRecognition>>

\* recognition.onresult with one final result: setTranscript(prev + final + ' ').
recognitionOnresult(id, final) ==
  /\ recognitions[id] \in {"running", "stopping"}
  /\ (liveTranscript \o final \o << " " >>) \in LiveTranscripts
  /\ liveTranscript' = liveTranscript \o final \o << " " >>
  /\ lastRec' = RecStep("recognition.onresult", id)
  /\ UNCHANGED <<isRecording, isPaused, isRecordingRef, isPausedRef, recorderError,
                 mediaRecorderRef, recognitionRef, mediaRecorders, recognitions,
                 gettingUserMedia, recordings, SpeechRecognition>>

\* recognition.onerror: 'no-speech' and 'aborted' are ignored; any other code
\* sets its message of the table, or the default message.
recognitionOnerror(id, err) ==
  /\ recognitions[id] \in {"running", "stopping"}
  /\ recorderError' =
       IF err \in {"no-speech", "aborted"} THEN recorderError
       ELSE IF err \in DOMAIN messages THEN messages[err]
       ELSE DefaultRecognitionError
  /\ lastRec' = RecStep("recognition.onerror", id)
  /\ UNCHANGED <<isRecording, isPaused, isRecordingRef, isPausedRef, liveTranscript,
                 mediaRecorderRef, recognitionRef, mediaRecorders, recognitions,
                 gettingUserMedia, recordings, SpeechRecognition>>

RecorderIds == 1..MaxRecordings

\* The recorder hook in a browser with or without speech recognition.
RecorderInit ==
  /\ HookInit
  /\ ServeIdle
  /\ isRecording = FALSE
  /\ isPaused = FALSE
  /\ recorderError = ""
  /\ liveTranscript = <<>>
  /\ isRecordingRef = FALSE
  /\ isPausedRef = FALSE
  /\ mediaRecorderRef = 0
  /\ recognitionRef = 0
  /\ mediaRecorders = [id \in RecorderIds |-> "none"]
  /\ recognitions = [id \in RecorderIds |-> "none"]
  /\ gettingUserMedia = 0
  /\ recordings = 0
  /\ SpeechRecognition \in BOOLEAN
  /\ lastRec = RecStep("init", 0)
  /\ startTimeRef = FALSE
  /\ effectDue = FALSE
  /\ callRecord = NoRecord

RecorderNext ==
  \/ startRecording /\ UNCHANGED <<hookVars, serveVars, monitorVars>>
  \/ (\E granted \in BOOLEAN : startRecordingResumes(granted))
       /\ UNCHANGED <<hookVars, serveVars, monitorVars>>
  \/ stopRecording /\ UNCHANGED <<hookVars, serveVars, monitorVars>>
  \/ pauseRecording /\ UNCHANGED <<hookVars, serveVars, monitorVars>>
  \/ resumeRecording /\ UNCHANGED <<hookVars, serveVars, monitorVars>>
  \/ (\E id \in RecorderIds : mediaRecorderOnstop(id))
       /\ UNCHANGED <<hookVars, serveVars, monitorVars>>
  \/ (\E id \in RecorderIds : recognitionOnend(id))
       /\ UNCHANGED <<hookVars, serveVars, monitorVars>>
  \/ (\E id \in RecorderIds, final \in Finals : recognitionOnresult(id, final))
       /\ UNCHANGED <<hookVars, serveVars, monitorVars>>
  \/ (\E id \in RecorderIds, err \in RecognitionErrors : recognitionOnerror(id, err))
       /\ UNCHANGED <<hookVars, serveVars, monitorVars>>

\* Calls of the recorder hook in any order, and the events of its recorders
\* and recognitions.
RecorderSpec == RecorderInit /\ [][RecorderNext]_vars

(***************************************************************************)
(* MonitorView: the recorder and the analysis session driven together.     *)
(***************************************************************************)
\* The call record built from a result.  Its duration is "elapsed", the
\* seconds since startTimeRef.current, in the record of handleStopRecording,
\* and "fixed", the 60 of handleUploadTranscriptAnalyze, in that of an upload.
CallRecordOf(result, duration) ==
  LET IsDetected(i) == i.detected
  IN [duration |-> duration,
      riskLevel |-> result.riskLevel,
      riskScore |-> result.riskScore,
      indicators |-> SelectSeq(result.indicators, IsDetected)]

\* The record handleStopRecording hands to onCallComplete: built from the
\* `analysis` of the render the handler belongs to.
CallRecordAtStop ==
  IF analysis # NullAnalysis /\ startTimeRef
    THEN CallRecordOf(analysis, "elapsed")
    ELSE callRecord

\* A dependency of the transcript effect changes in this step.
DepsChanged == liveTranscript' # liveTranscript \/ isRecording' # isRecording

\* handleStartRecording, up to the await inside startAudioRecording.  It is the
\* handler of a click, a task of its own like the other handlers of the view.
handleStartRecording ==
  /\ mounted
  /\ ~effectDue
  /\ TaskMayRun
  /\ sessions + gettingUserMedia < MaxMonitorings
  /\ startRecording
  /\ effectDue' = DepsChanged
  /\ UNCHANGED <<hookVars, serveVars, startTimeRef, callRecord>>

\* handleStartRecording after startAudioRecording has resolved: it resolves
\* whether the microphone was granted or not.
handleStartRecordingResumes(granted) ==
  /\ TaskMayRun
  /\ startRecordingResumes(granted)
  /\ startAnalysis(<<>>)
  /\ startTimeRef' = TRUE
  /\ effectDue' = (effectDue \/ DepsChanged)
  /\ UNCHANGED callRecord

\* The effect on [transcript, isRecording, updateTranscript].
TranscriptEffect ==
  /\ mounted
  /\ effectDue
  /\ effectDue' = FALSE
  /\ IF isRecording /\ liveTranscript # <<>>
       THEN updateTranscript(liveTranscript)
       ELSE UNCHANGED <<hookVars, serveVars>>
  /\ UNCHANGED <<recorderVars, startTimeRef, callRecord>>

\* The least length of the trimmed text for which the Analyze button of the
\* Quick Analyze box calls handleManualAnalyze.
QuickMinLength == 10

\* The texts typed into the Quick Analyze box.
QuickTexts == {TShareImmediatelySp, TCourtCase}

\* handleManualAnalyze(text), up to its await: updateTranscript(text), then
\* analyzeTranscript(text), whose result is published before the handler
\* suspends.  After the await it only shows a toast.
handleManualAnalyze(text) ==
  /\ mounted
  /\ ~effectDue
  /\ TaskMayRun
  /\ StoreTranscript(text)
  /\ Dispatch(text, "handleManualAnalyze")
  /\ last' = Step("handleManualAnalyze", NullTimer, text, <<text>>)
  /\ UNCHANGED <<isAnalyzing, lastAnalyzedLengthRef, firstCheckTimeoutRef,
                 intervalRef, sessions, stopped, serveVars, language, mounted,
                 audioDelays>>
  /\ UNCHANGED viewVars

\* The least length of the trimmed text handleUploadTranscriptAnalyze accepts.
UploadMinLength == 10

\* The texts typed into the box shown once an audio file has been chosen.
UploadTranscriptTexts == {TShareImmediatelySp}

\* handleUploadTranscriptAnalyze, up to its await: it trims the text, returns
\* when fewer than ten characters are left, and otherwise awaits
\* analyzeTranscript(text).
handleUploadTranscriptAnalyze(uploadTranscriptText) ==
  LET text == Trim(uploadTranscriptText)
  IN /\ mounted
     /\ ~effectDue
     /\ TaskMayRun
     /\ IF Len(text) < UploadMinLength
          THEN UNCHANGED <<hookVars, serveVars>>
          ELSE /\ Dispatch(text, "handleUploadTranscriptAnalyze")
               /\ last' = Step("handleUploadTranscriptAnalyze", NullTimer, text, <<text>>)
               /\ UNCHANGED <<isAnalyzing, transcriptRef, lastAnalyzedLengthRef,
                              firstCheckTimeoutRef, intervalRef, debounceRef, timers,
                              sessions, stopped, serveVars, language, mounted,
                              audioDelays>>
     /\ UNCHANGED viewVars

\* handleUploadTranscriptAnalyze after its await: it hands a record of the
\* result analyzeTranscript returned to onCallComplete, whether a recording
\* was started or not.
handleUploadTranscriptAnalyzeResumes ==
  /\ awaiting # <<>>
  /\ Head(awaiting).owner = "handleUploadTranscriptAnalyze"
  /\ ResumeAfterAwait
  /\ callRecord' = CallRecordOf(AnalysisOf(Head(awaiting).snapshot), "fixed")
  /\ UNCHANGED <<recorderVars, startTimeRef, effectDue>>

handleStopRecording ==
  /\ mounted
  /\ ~effectDue
  /\ TaskMayRun
  /\ stopRecording
  /\ stopAnalysis
  /\ callRecord' = CallRecordAtStop
  /\ effectDue' = DepsChanged
  /\ UNCHANGED startTimeRef

\* An event of the recorder; the effect is due when it changes the transcript.
RecorderEvent ==
  /\ TaskMayRun
  /\ \/ \E id \in RecorderIds : mediaRecorderOnstop(id)
     \/ \E id \in RecorderIds : recognitionOnend(id)
     \/ \E id \in RecorderIds, final \in Finals : recognitionOnresult(id, final)
     \/ \E id \in RecorderIds, err \in RecognitionErrors : recognitionOnerror(id, err)
  /\ effectDue' = (effectDue \/ DepsChanged)
  /\ UNCHANGED <<hookVars, serveVars, startTimeRef, callRecord>>

MonitorNext ==
  \/ handleStartRecording
  \/ \E granted \in BOOLEAN : handleStartRecordingResumes(granted)
  \/ TranscriptEffect
  \/ handleStopRecording
  \/ \E quickText \in QuickTexts :
       /\ Len(Trim(quickText)) >= QuickMinLength
       /\ handleManualAnalyze(Trim(quickText))
  \/ \E text \in UploadTranscriptTexts : handleUploadTranscriptAnalyze(text)
  \/ handleUploadTranscriptAnalyzeResumes
  \/ mounted /\ ~effectDue /\ TaskMayRun /\ pauseRecording
       /\ UNCHANGED <<hookVars, serveVars, monitorVars>>
  \/ mounted /\ ~effectDue /\ TaskMayRun /\ resumeRecording
       /\ UNCHANGED <<hookVars, serveVars, monitorVars>>
  \/ RecorderEvent
  \/ WarmupFire /\ UNCHANGED viewVars
  \/ IntervalFire /\ UNCHANGED viewVars
  \/ DebounceFire /\ UNCHANGED viewVars
  \/ /\ awaiting # <<>>
     /\ Head(awaiting).owner # "handleUploadTranscriptAnalyze"
     /\ ResumeAfterAwait
     /\ UNCHANGED viewVars
  \/ TaskMayRun /\ unmount /\ UNCHANGED viewVars

\* MonitorView's handlers, the recorder's events and the session's timers.
MonitorSpec == RecorderInit /\ [][MonitorNext]_vars

(***************************************************************************)
(* Properties of the analysis session.                                     *)
(***************************************************************************)
ScheduledTriggers == {"warmup", "interval", "debounce"}

DebounceTimers == {tm \in timers : tm.kind = "debounce"}

\* C2: the published result is the result of the most recently started
\* dispatch, never that of an earlier dispatch that completed later.
C2_PublishedIsMostRecentlyStarted ==
  lastStarted # <<>> => analysis = AnalysisOf(lastStarted[1])

\* A second scheduled dispatch of a session has been published over a medium
\* result of an earlier one.
C2_Witness ==
  /\ last.op = "debounce"
  /\ last.dispatched = <<TShareImmediately>>
  /\ last.prevAnalyzed = 15
  /\ Len(awaiting) = 1
  /\ analysis.riskLevel = "high"

\* C3: no scheduled trigger (warm-up, recurring, debounce expiry) dispatches
\* an analysis of a transcript shorter than 15 characters.
C3_NoScheduledDispatchBelow15 ==
  (isAnalyzing /\ last.op \in ScheduledTriggers) =>
    \A i \in DOMAIN last.dispatched : Len(last.dispatched[i]) >= 15

\* C4: while monitoring, whenever the transcript has at least 15 characters
\* and is longer than the last-analyzed length, a dispatch over a transcript
\* at least that long follows (by a check or by the final analysis of stop),
\* unless the component unmounts first.  Behaviours in which a debounce timeout
\* stays pending for ever are left aside: they are the ones in which calls of
\* updateTranscript keep it from expiring.
C4_PendingContentIsDispatched ==
  \/ <>[](DebounceTimers # {})
  \/ \A t \in Transcripts :
       (/\ mounted
        /\ isAnalyzing
        /\ transcriptRef = t
        /\ Len(t) >= 15
        /\ Len(t) > lastAnalyzedLengthRef)
         ~> (\/ ~mounted
             \/ \E i \in DOMAIN last.dispatched : Len(last.dispatched[i]) >= Len(t))

\* C5 as stated: the expiry of a debounce timer armed during the session, by
\* the call that passed the transcript still held (one no shorter than what
\* was analyzed before), produces exactly one dispatch.
C5_DebounceExpiryDispatchesOnce ==
  ( /\ last.op = "debounce"
    /\ isAnalyzing
    /\ last.timer.session = sessions
    /\ last.timer.armedWith = transcriptRef
    /\ Len(transcriptRef) >= last.prevAnalyzed ) => Len(last.dispatched) = 1

\* C5 as amended: calls of updateTranscript leave at most one debounce timer
\* pending (exactly one, the one debounceRef holds, after a call that meets the
\* threshold), and its expiry dispatches the transcript held when it fires if
\* that transcript is longer than the last-analyzed length, and nothing otherwise.
C5_DebounceCollapses ==
  /\ Cardinality(DebounceTimers) <= 1
  /\ (last.op = "updateTranscript" /\ Len(Trim(last.arg)) >= 10) =>
       (DebounceTimers = {debounceRef} /\ debounceRef.armedWith = last.arg)
  /\ last.op = "debounce" =>
       last.dispatched = IF Len(transcriptRef) > last.prevAnalyzed
                           THEN <<transcriptRef>> ELSE <<>>

\* The debounce timer fires after the transcript moved on from the one that
\* armed it, and dispatches the later transcript.
C5_Witness ==
  /\ last.op = "debounce"
  /\ last.timer.armedWith = TShareYourOtp
  /\ last.dispatched = <<TShareOtpPadded>>

\* C6: once stopAnalysis has run, no timer scheduled during a session that it
\* ended fires a trigger check.
C6_NoTimerOfStoppedSessionFires ==
  last.op \in ScheduledTriggers =>
    (last.timer.session = 0 \/ last.timer.session > stopped)

\* C7: stopAnalysis runs exactly one final dispatch, over the full current
\* transcript, if its length is at least 15, and none if it is shorter.
C7_StopRunsOneFinalDispatch ==
  last.op = "stopAnalysis" =>
    /\ last.dispatched = IF Len(last.prevTranscript) >= 15
                           THEN <<last.prevTranscript>> ELSE <<>>
    /\ Len(awaiting) = last.awaitingBefore + Len(last.dispatched)

\* stopAnalysis dispatches a transcript whose length was already analyzed.
C7_Witness ==
  /\ last.op = "stopAnalysis"
  /\ last.dispatched = <<last.prevTranscript>>
  /\ last.prevAnalyzed = Len(last.prevTranscript)

\* C8: when stopAnalysis has completed the session is idle, the transcript is
\* empty and the last-analyzed length is 0; startAnalysis begins from
\* last-analyzed length 0 with the transcript equal to its argument.
C8_StopClearsStartResets ==
  /\ (last.op = "stopAnalysisResumed" \/ (last.op = "stopAnalysis" /\ last.dispatched = <<>>)) =>
       (~isAnalyzing /\ transcriptRef = <<>> /\ lastAnalyzedLengthRef = 0)
  /\ last.op = "startAnalysis" =>
       (lastAnalyzedLengthRef = 0 /\ transcriptRef = last.arg)

\* C9: startAnalysis moves the session to monitoring, publishes the neutral
\* baseline (low, 0, the 7 canonical indicators undetected with confidence 0)
\* and schedules one single-shot warm-up check and one recurring check, which
\* run the same trigger check.
C9_StartPublishesBaselineAndSchedules ==
  /\ last.op = "startAnalysis" =>
       /\ isAnalyzing
       /\ analysis.riskLevel = "low"
       /\ analysis.riskScore = 0
       /\ Len(analysis.indicators) = 7
       /\ \A i \in 1..7 :
            /\ analysis.indicators[i].id = scamPatterns[i]
            /\ analysis.indicators[i].detected = FALSE
            /\ analysis.indicators[i].confidence = 0
       /\ firstCheckTimeoutRef = Timer("warmup", sessions, <<>>)
       /\ intervalRef = Timer("interval", sessions, <<>>)
       /\ {firstCheckTimeoutRef, intervalRef} \subseteq timers
  /\ last.op = "warmup" => last.timer \notin timers
  /\ last.op = "interval" => last.timer \in timers
  /\ last.op \in {"warmup", "interval"} =>
       last.dispatched =
         IF Len(last.prevTranscript) >= 15 /\ Len(last.prevTranscript) > last.prevAnalyzed
           THEN <<last.prevTranscript>> ELSE <<>>

\* A second session has just been started, after the first was stopped, with
\* a transcript of 15 characters.
C9_Witness ==
  /\ last.op = "startAnalysis"
  /\ last.arg = TShareYourOtpSp
  /\ sessions = 2
  /\ stopped = 1
  /\ analysis.riskLevel = "low"
  /\ Cardinality(timers) = 2

\* C10: once the session is idle, no dispatch scheduled during that session
\* changes the published result.
C10_NoLateResultAfterStop ==
  (last.op \in ScheduledTriggers /\ last.timer.session # 0 /\ last.timer.session <= stopped)
    => last.dispatched = <<>>

(***************************************************************************)
(* Properties of the edge function and of the result model.                *)
(***************************************************************************)
\* The fetch of a call of the handler has failed, or has succeeded.
UpstreamFailed(h) ==
  h.upstream.kind = "network" \/ (h.upstream.kind = "http" /\ ~Ok(h.upstream.status))

UpstreamSucceeded(h) == h.upstream.kind = "http" /\ Ok(h.upstream.status)

\* The call of the handler has answered its request from the rule branch.
RuleBranchAnswered(h) ==
  h.pc = "done" /\ h.req.method = "POST" /\ ~LOVABLE_API_KEY /\ h.res.status = 200

\* The capped raw score of each transcript under the client table and under
\* the edge table.
ClientRaw ==
  [t \in ClientTranscripts |->
     Min2(100, WeightSum(Trim(ToLowerCase(t)), patterns, Len(patterns)))] @@ <<>>

EdgeRaw ==
  [t \in ServeTranscripts |->
     Min2(100, EdgeScore(Trim(ToLowerCase(t)), Len(indicatorTypes)))] @@ <<>>

LevelOfRaw(raw) == IF raw >= 50 THEN "high" ELSE IF raw >= 25 THEN "medium" ELSE "low"

ScoreOfRaw(raw) == IF raw >= 50 /\ raw < 75 THEN 75 ELSE raw

\* C11: when the AI call fails (rate limit, quota, any other upstream failure
\* or a network failure), the caller receives the rule-based result for the
\* same transcript, not an error.
C11_UpstreamFailureFallsBackToRules ==
  \A id \in RequestIds :
    LET h == handlers[id]
    IN h.pc = "done" =>
         (
         UpstreamFailed(h) =>
           /\ h.res.status = 200
           /\ h.res.result = EdgeRuleResults[h.req.transcript])

\* C12: a pass of the recurring check never stops the schedule: after every
\* recurring check, whatever its dispatch did, the interval timer is still
\* armed and, while the component is mounted, held by the session, and once
\* the caller has resumed the next check can run.
C12_RecurringTimerStaysArmed ==
  /\ last.op = "interval" => last.timer \in timers
  /\ (mounted /\ isAnalyzing) => (intervalRef.kind = "interval" /\ intervalRef \in timers)
  /\ (/\ mounted
      /\ isAnalyzing
      /\ awaiting = <<>>
      /\ Timer("warmup", sessions, <<>>) \notin timers) => ENABLED IntervalFire

\* A recurring check dispatches after an earlier dispatch of the same session,
\* its timer still armed.
C12_Witness ==
  /\ last.op = "interval"
  /\ last.dispatched = <<TShareImmediately>>
  /\ last.prevAnalyzed = 15
  /\ last.timer \in timers
  /\ isAnalyzing

\* C13: the riskScore of every returned result, of the edge function and of
\* the client scorer, is between 0 and 100.
C13_RiskScoreInRange ==
  /\ \A id \in RequestIds :
       LET h == handlers[id]
       IN (h.pc = "done" /\ h.res.status = 200 /\ h.res.result # NoResult)
            => h.res.result.riskScore \in 0..100
  /\ analysis # NullAnalysis => analysis.riskScore \in 0..100

\* The ids of an indicator list are exactly the seven canonical ids, once each.
Canonical(indicators) ==
  /\ Len(indicators) = 7
  /\ {indicators[i].id : i \in DOMAIN indicators}
       = {"impersonation", "urgency", "emotional", "authority",
          "otp_request", "money_request", "voice_pattern"}

\* C14: every result returned with success has exactly seven indicators, one
\* per canonical id, whatever indicators the AI returned.
C14_ExactlySevenIndicators ==
  /\ \A id \in RequestIds :
       LET h == handlers[id]
       IN (h.pc = "done" /\ h.res.status = 200 /\ h.res.result # NoResult)
            => Canonical(h.res.result.indicators)
  /\ analysis # NullAnalysis => Canonical(analysis.indicators)

\* C15: in every result, of any producer, riskLevel high implies riskScore >= 75.
C15_HighImpliesScoreAtLeast75 ==
  /\ \A id \in RequestIds :
       LET h == handlers[id]
       IN (h.pc = "done" /\ h.res.status = 200 /\ h.res.result.riskLevel = "high")
            => h.res.result.riskScore >= 75
  /\ analysis.riskLevel = "high" => analysis.riskScore >= 75

\* C16: in both rule scorers the level is decided by the capped raw score
\* alone (>= 50 high, 25..49 medium, < 25 low), and the floor of 75 changes
\* the score of high results only.
C16_LevelFromCappedRawScore ==
  /\ \A id \in RequestIds :
       LET h == handlers[id]
       IN RuleBranchAnswered(h) =>
            /\ h.res.result.riskLevel = LevelOfRaw(EdgeRaw[h.req.transcript])
            /\ h.res.result.riskScore = ScoreOfRaw(EdgeRaw[h.req.transcript])
  /\ lastStarted # <<>> =>
       /\ analysis.riskLevel = LevelOfRaw(ClientRaw[lastStarted[1]])
       /\ analysis.riskScore = ScoreOfRaw(ClientRaw[lastStarted[1]])

\* The edge rule branch has scored a transcript of raw score 50 (high, raised
\* to 75) and the client scorer one of raw score 45 (medium, unchanged).
C16_Witness ==
  /\ \E id \in RequestIds :
       LET h == handlers[id]
       IN /\ RuleBranchAnswered(h)
          /\ h.req = Post(TBankPay)
          /\ h.res.result.riskLevel = "high"
          /\ h.res.result.riskScore = 75
  /\ EdgeRaw[TBankPay] = 50
  /\ lastStarted = <<TArrestUpi>>
  /\ ClientRaw[TArrestUpi] = 45
  /\ analysis.riskLevel = "medium"
  /\ analysis.riskScore = 45

\* C17: a POST whose transcript is missing, empty or only whitespace is
\* answered 400 'No transcript provided', with or without a key, and the
\* upstream service is not contacted.
C17_EmptyTranscriptIs400 ==
  \A id \in RequestIds :
    LET h == handlers[id]
    IN h.pc = "done" =>
         (
         (/\ h.req.method = "POST"
          /\ h.req.body = "object"
          /\ h.req.transcriptType = "string"
          /\ \/ ~h.req.hasTranscript
             \/ \A i \in DOMAIN h.req.transcript : h.req.transcript[i] \in {" ", "\t", "\n", "\r", "\f", "", " "})
           => /\ h.res = [status |-> 400, error |-> "No transcript provided", result |-> NoResult]
              /\ h.upstream = NotContacted)

\* A whitespace-only transcript has been refused while a key is configured.
C17_Witness ==
  \E id \in RequestIds :
    LET h == handlers[id]
    IN /\ h.pc = "done"
       /\ LOVABLE_API_KEY
       /\ h.req = Post(TBlank)
       /\ h.res.status = 400
       /\ h.upstream = NotContacted

\* C18: upstream 429 is answered 429 with the rate-limit message, upstream 402
\* is answered 402 with the usage-limit message, every other upstream failure
\* is answered 500; none is answered 200.
C18_UpstreamFailuresMapToDistinctResponses ==
  \A id \in RequestIds :
    LET h == handlers[id]
    IN h.pc = "done" =>
         (
         /\ (h.upstream.kind = "http" /\ h.upstream.status = 429) =>
              (h.res.status = 429 /\ h.res.error = "Rate limit exceeded. Please try again in a moment.")
         /\ (h.upstream.kind = "http" /\ h.upstream.status = 402) =>
              (h.res.status = 402 /\ h.res.error = "Usage limit reached. Please check your account.")
         /\ (UpstreamFailed(h) /\ h.upstream.status \notin {429, 402}) => h.res.status = 500
         /\ UpstreamFailed(h) => (h.res.status # 200 /\ h.res.result = NoResult))

\* The gateway has answered 429 and the handler 429.
C18_Witness ==
  \E id \in RequestIds :
    LET h == handlers[id]
    IN /\ h.pc = "done"
       /\ h.upstream.kind = "http"
       /\ h.upstream.status = 429
       /\ h.res.status = 429
       /\ h.req = Post(TShareYourOtp)

\* The content holds no JSON text, inside a fence or outside.
NoJsonIn(content) == \A i \in DOMAIN content : content[i].value.kind = "garbage"

\* C19: when the upstream call succeeds and the content is non-empty text that
\* is not JSON, the response is 200 with medium, 50, the single guidance
\* 'Unable to fully analyze. Please be cautious.' and the seven canonical
\* indicators, none detected, confidence 0.
C19_NonJsonContentGivesNeutralDefault ==
  \A id \in RequestIds :
    LET h == handlers[id]
    IN h.pc = "done" =>
         (
         (/\ UpstreamSucceeded(h)
          /\ h.upstream.contentType = "string"
          /\ h.upstream.content # <<>>
          /\ NoJsonIn(h.upstream.content))
           => /\ h.res.status = 200
              /\ h.res.result.riskLevel = "medium"
              /\ h.res.result.riskScore = 50
              /\ h.res.result.guidance = << "Unable to fully analyze. Please be cautious." >>
              /\ Len(h.res.result.indicators) = 7
              /\ \A i \in 1..7 :
                   /\ h.res.result.indicators[i].id = scamPatterns[i]
                   /\ h.res.result.indicators[i].detected = FALSE
                   /\ h.res.result.indicators[i].confidence = 0)

\* Fenced text that is not JSON has been answered with the neutral default.
C19_Witness ==
  \E id \in RequestIds :
    LET h == handlers[id]
    IN /\ h.pc = "done"
       /\ h.upstream = HttpReply(200, "string", << Fence, Text(NotJson), Fence >>)
       /\ h.res.status = 200
       /\ h.res.result.riskScore = 50
       /\ Len(h.res.result.indicators) = 7

\* The content is empty, does not decode, or decodes to a value that is not a
\* result: null, a number, an object without an indicators array, a level
\* outside low/medium/high, a score outside 0..100.
Malformed(reply) ==
  \/ reply.contentType # "string"
  \/ reply.content = <<>>
  \/ ~Parses(JsonStr(reply.content))
  \/ LET v == JsonStr(reply.content)[1].value
     IN \/ v.kind # "object"
        \/ ~v.hasIndicators
        \/ v.riskLevel \notin {"low", "medium", "high"}

\* C20: a malformed AI response is never surfaced as an error: the response is
\* 200 with the neutral default, never 500.
C20_MalformedResponseGivesNeutralDefault ==
  \A id \in RequestIds :
    LET h == handlers[id]
    IN h.pc = "done" =>
         (
         (UpstreamSucceeded(h) /\ Malformed(h.upstream))
           => /\ h.res.status = 200
              /\ h.res.result.riskLevel = "medium"
              /\ h.res.result.riskScore = 50
              /\ h.res.result.guidance = << "Unable to fully analyze. Please be cautious." >>)

(***************************************************************************)
(* Properties of the request handler as a whole and of the rule scorers.   *)
(***************************************************************************)
\* C21: the handler is total: every request it has finished with has a
\* response whose status is 200, 400, 402, 429 or 500; a body that is not
\* JSON, a transcript that is not a string and every failure after the fetch
\* other than 429 and 402 are answered 500 with an error message.
C21_HandlerIsTotal ==
  \A id \in RequestIds :
    LET h == handlers[id]
    IN h.pc = "done" =>
          /\ h.res.status \in {200, 400, 402, 429, 500}
          /\ h.res.status # 200 => (h.res.error # "" /\ h.res.result = NoResult)
          /\ (/\ h.req.method # "OPTIONS"
              /\ \/ h.req.body # "object"
                 \/ (h.req.hasTranscript /\ h.req.transcriptType # "string"))
               => h.res.status = 500
          /\ (\/ h.upstream.kind = "network"
              \/ (h.upstream.kind = "http" /\ h.upstream.status \in {500, 503})
              \/ (h.upstream.kind = "http" /\ h.upstream.contentType = "notjson"))
               => h.res.status = 500

\* A GET without a JSON body has been answered 500.
C21_Witness ==
  \E id \in RequestIds :
    LET h == handlers[id]
    IN /\ h.pc = "done"
       /\ h.req.method = "GET"
       /\ h.req.body = ""
       /\ h.res.status = 500
       /\ h.res.error # ""

\* Containment of a keyword, by comparing every window of the text.
HasWord(text, kw) ==
  \E i \in 1..(Len(text) - Len(kw) + 1) : SubSeq(text, i, i + Len(kw) - 1) = kw

\* The ids of the rules of a table with a keyword in the normalized transcript.
Matched(t, table) ==
  LET text == Trim(ToLowerCase(t))
  IN { table[j].id : j \in { i \in DOMAIN table :
         \E k \in DOMAIN table[i].keywords : HasWord(text, table[i].keywords[k]) } }

ClientMatched == [t \in ClientTranscripts |-> Matched(t, patterns)] @@ <<>>

EdgeMatched == [t \in ServeTranscripts |-> Matched(t, edgePatterns)] @@ <<>>

DetectedIds(indicators) ==
  { indicators[i].id : i \in { j \in DOMAIN indicators : indicators[j].detected } }

AllUndetected(indicators) ==
  /\ Len(indicators) = 7
  /\ \A i \in DOMAIN indicators : ~indicators[i].detected /\ indicators[i].confidence = 0

\* C22: a transcript with none of the rule keywords, such as the README's
\* normal-call phrases, is scored low, 0, all seven indicators undetected, by
\* the client scorer and by the edge rule branch.
C22_NoKeywordIsLowZero ==
  /\ \A t \in ReadmeNormalPhrases : ClientMatched[t] = {} /\ EdgeMatched[t] = {}
  /\ (lastStarted # <<>> /\ ClientMatched[lastStarted[1]] = {}) =>
       /\ analysis.riskLevel = "low"
       /\ analysis.riskScore = 0
       /\ AllUndetected(analysis.indicators)
  /\ \A id \in RequestIds :
       LET h == handlers[id]
       IN (RuleBranchAnswered(h) /\ EdgeMatched[h.req.transcript] = {}) =>
            /\ h.res.result.riskLevel = "low"
            /\ h.res.result.riskScore = 0
            /\ AllUndetected(h.res.result.indicators)

\* Two of the README's normal-call phrases have been scored, one by each scorer.
C22_Witness ==
  /\ lastStarted = <<TMeetingTomorrow>>
  /\ analysis.riskLevel = "low"
  /\ analysis.riskScore = 0
  /\ \E id \in RequestIds :
       LET h == handlers[id]
       IN /\ RuleBranchAnswered(h)
          /\ h.req = Post(TProjectDetails)
          /\ h.res.result.riskLevel = "low"
          /\ h.res.result.riskScore = 0

ThreeRules == {"impersonation", "otp_request", "urgency"}

\* C23: a transcript that matches the impersonation, otp_request and urgency
\* rules, such as the sample scam phrase, has raw score >= 50 and is returned
\* high with riskScore >= 75, with exactly those three indicators detected
\* when no other rule matches.
C23_ThreeRulesGiveHigh ==
  /\ ClientMatched[TSampleScam] = ThreeRules
  /\ (lastStarted # <<>> /\ ThreeRules \subseteq ClientMatched[lastStarted[1]]) =>
       /\ ClientRaw[lastStarted[1]] >= 50
       /\ analysis.riskLevel = "high"
       /\ analysis.riskScore >= 75
       /\ ClientMatched[lastStarted[1]] = ThreeRules
            => DetectedIds(analysis.indicators) = ThreeRules

\* The sample scam phrase has been scored: high, 80.
C23_Witness ==
  /\ lastStarted = <<TSampleScam>>
  /\ last.op = "analyzeTranscript"
  /\ analysis.riskLevel = "high"
  /\ analysis.riskScore = 80
  /\ DetectedIds(analysis.indicators) = ThreeRules

\* C24: each of the README's six scam-call phrases, scored on its own by the
\* rule scorer, is high with riskScore between 61 and 100.
C24_ReadmeScamPhrasesAreHigh ==
  (lastStarted # <<>> /\ lastStarted[1] \in ReadmeScamPhrases) =>
    /\ analysis.riskLevel = "high"
    /\ analysis.riskScore \in 61..100

(***************************************************************************)
(* Properties of the session's transcript and of its dispatches.           *)
(***************************************************************************)
IsPrefixOf(a, b) == Len(a) <= Len(b) /\ SubSeq(b, 1, Len(a)) = a

\* C25: while Monitoring the transcript is append-only: every updateTranscript
\* extends the text held before, whoever calls it.
C25_TranscriptIsAppendOnly ==
  (last.op = "updateTranscript" /\ isAnalyzing)
    => IsPrefixOf(last.prevTranscript, transcriptRef)

\* C27: a scheduled dispatch happens only when the transcript is longer than
\* the last-analyzed length and sets that length to the dispatched length;
\* while a session runs the last-analyzed length never decreases, so the
\* lengths of its successive scheduled dispatches strictly increase.
C27_ScheduledDispatchesStrictlyIncrease ==
  /\ []((last.op \in ScheduledTriggers /\ last.dispatched # <<>>) =>
          /\ last.dispatched = << last.prevTranscript >>
          /\ Len(last.prevTranscript) > last.prevAnalyzed
          /\ lastAnalyzedLengthRef = Len(last.prevTranscript))
  /\ [][(isAnalyzing /\ isAnalyzing' /\ sessions' = sessions)
          => lastAnalyzedLengthRef' >= lastAnalyzedLengthRef]_vars

\* The warm-up check dispatches 26 characters after a debounce expiry has
\* dispatched 15.
C27_Witness ==
  /\ last.op = "warmup"
  /\ last.dispatched = <<TShareImmediately>>
  /\ last.prevAnalyzed = 15
  /\ lastAnalyzedLengthRef = 26
  /\ isAnalyzing

\* C28: a scheduled dispatch analyzes exactly the transcript read when it was
\* triggered, and when its caller resumes the published result and the
\* last-analyzed length are those of that snapshot.
C28_SnapshotIsolation ==
  /\ []((last.op \in ScheduledTriggers /\ last.dispatched # <<>>) =>
          /\ last.dispatched = << last.prevTranscript >>
          /\ analysis = AnalysisOf(last.prevTranscript))
  /\ [][(/\ awaiting # <<>>
         /\ Len(awaiting') < Len(awaiting)
         /\ awaiting[1].owner \in {"runIntervalCheck", "debounce"})
          => /\ lastAnalyzedLengthRef' = Len(awaiting[1].snapshot)
             /\ analysis' = AnalysisOf(awaiting[1].snapshot)]_vars

\* updateTranscript has replaced the transcript after a dispatch of 26
\* characters completed: the result and the last-analyzed length are still
\* those of the snapshot.
C28_Witness ==
  /\ isAnalyzing
  /\ last.op = "updateTranscript"
  /\ transcriptRef = THowAreYou
  /\ lastStarted = <<TShareImmediately>>
  /\ lastAnalyzedLengthRef = 26
  /\ analysis = AnalysisOf(TShareImmediately)

ClientWeights ==
  [impersonation |-> 25, otp_request |-> 30, urgency |-> 25,
   authority |-> 20, money_request |-> 25, emotional |-> 15]

EdgeWeights ==
  [impersonation |-> 25, otp_request |-> 30, urgency |-> 25,
   authority |-> 20, money_request |-> 25]

RECURSIVE SumOfWeights(_, _)
SumOfWeights(ids, weights) ==
  IF ids = {} THEN 0
  ELSE LET id == CHOOSE x \in ids : TRUE
       IN weights[id] + SumOfWeights(ids \ {id}, weights)

\* The riskScore the claim gives for a set of matched rules.
ScoreOfMatched(ids, weights) ==
  LET sum == SumOfWeights(ids, weights)
      capped == IF sum > 100 THEN 100 ELSE sum
  IN IF capped >= 50 /\ capped <= 74 THEN 75 ELSE capped

\* C29: the riskScore is the sum of the weights of the rules with at least
\* one keyword in the normalized transcript, each rule once, capped at 100,
\* and raised to 75 when the capped sum is 50 to 74.
C29_ScoreIsCappedSumOfMatchedWeights ==
  /\ lastStarted # <<>> =>
       analysis.riskScore = ScoreOfMatched(ClientMatched[lastStarted[1]], ClientWeights)
  /\ \A id \in RequestIds :
       LET h == handlers[id]
       IN RuleBranchAnswered(h) =>
            h.res.result.riskScore = ScoreOfMatched(EdgeMatched[h.req.transcript], EdgeWeights)

\* The client has scored a transcript matching all six rules (140, capped to
\* 100) and the edge rule branch one with two urgency keywords (80).
C29_Witness ==
  /\ lastStarted = <<TEverything>>
  /\ analysis.riskScore = 100
  /\ \E id \in RequestIds :
       LET h == handlers[id]
       IN /\ RuleBranchAnswered(h)
          /\ h.req = Post(TSampleScam)
          /\ h.res.result.riskScore = 80

\* JSON text between an opening '```json' or '```' and a closing '```'.
Wrapped(content) ==
  /\ Len(content) >= 3
  /\ content[1].tok \in Fences
  /\ content[Len(content)].tok = "fence"
  /\ Parses(SubSeq(content, 2, Len(content) - 1))

\* C30: JSON wrapped in a '```json' block or in a plain '```' block is answered
\* as the same JSON sent bare, and content without a fence is decoded as it is.
C30_FencedJsonDecodesAsBare ==
  \A id \in RequestIds :
    LET h == handlers[id]
    IN h.pc = "done" =>
         (
         (UpstreamSucceeded(h) /\ h.upstream.contentType = "string") =>
           /\ (Wrapped(h.upstream.content) =>
                h.res = AfterFetch(HttpReply(200, "string",
                           SubSeq(h.upstream.content, 2, Len(h.upstream.content) - 1))))
           /\ (/\ Len(h.upstream.content) = 1
               /\ h.upstream.content[1].tok = "text"
               /\ h.upstream.content[1].value.kind = "object"
               /\ h.upstream.content[1].value.hasIndicators) =>
                /\ h.res.status = 200
                /\ h.res.result.riskLevel = h.upstream.content[1].value.riskLevel
                /\ h.res.result.riskScore = h.upstream.content[1].value.riskScore
                /\ h.res.result.guidance = h.upstream.content[1].value.guidance
                /\ IsPrefixOf(h.upstream.content[1].value.indicators, h.res.result.indicators))

(***************************************************************************)
(* Properties of the session's timers, of its successive results and of    *)
(* the two rule tables.                                                    *)
(***************************************************************************)
TimersOfKind(kind) == {tm \in timers : tm.kind = kind}

\* C31: at most one warm-up timer, one recurring timer and one debounce
\* timer are pending at any time, and every pending timer is held by one of
\* the session's refs, so that stopAnalysis can clear it.
C31_AtMostOneTimerOfEachKind ==
  /\ \A kind \in {"warmup", "interval", "debounce"} : Cardinality(TimersOfKind(kind)) <= 1
  /\ \A tm \in timers : tm \in {firstCheckTimeoutRef, intervalRef, debounceRef}

\* C34: from one dispatch of a session to the next, when the later snapshot
\* extends the earlier one, the published riskScore does not decrease and
\* every indicator detected before is still detected.
C34_AppendingNeverLowersTheResult ==
  [][(/\ lastStarted # <<>>
      /\ lastStarted' # <<>>
      /\ sessions' = sessions
      /\ IsPrefixOf(lastStarted[1], lastStarted'[1]))
       => /\ analysis'.riskScore >= analysis.riskScore
          /\ DetectedIds(analysis.indicators) \subseteq DetectedIds(analysis'.indicators)]_vars

\* A recurring check has dispatched 26 characters after a debounce expiry
\* dispatched their first 14: the score has gone from 30 to 75.
C34_Witness ==
  /\ isAnalyzing
  /\ last.op = "interval"
  /\ last.dispatched = <<TShareImmediately>>
  /\ last.prevAnalyzed = 14
  /\ analysis.riskScore = 75
  /\ DetectedIds(analysis.indicators) = {"otp_request", "urgency"}

Rank(riskLevel) == CASE riskLevel = "low" -> 0 [] riskLevel = "medium" -> 1 [] riskLevel = "high" -> 2

\* C37: for a transcript scored by both, every indicator the edge rule branch
\* detects is detected by the client scorer, and the client's riskScore and
\* riskLevel are not lower than the edge's.
C37_ClientDominatesEdge ==
  \A id \in RequestIds :
    LET h == handlers[id]
    IN (RuleBranchAnswered(h) /\ lastStarted = << h.req.transcript >>) =>
         /\ DetectedIds(h.res.result.indicators) \subseteq DetectedIds(analysis.indicators)
         /\ analysis.riskScore >= h.res.result.riskScore
         /\ Rank(analysis.riskLevel) >= Rank(h.res.result.riskLevel)

\* 'help me' has been scored by both: the client detects emotional (15), the
\* edge rule branch nothing (0).
C37_Witness ==
  /\ \E id \in RequestIds :
       LET h == handlers[id]
       IN /\ RuleBranchAnswered(h)
          /\ h.req = Post(THelpMe)
          /\ h.res.result.riskScore = 0
  /\ lastStarted = <<THelpMe>>
  /\ analysis.riskScore = 15
  /\ DetectedIds(analysis.indicators) = {"emotional"}

(***************************************************************************)
(* Properties of the recorder and of MonitorView.                          *)
(***************************************************************************)
\* C32: the call record handed over when monitoring stops carries the level,
\* the score and the detected indicators of the final analysis that stop runs
\* over the complete transcript.
C32_CallRecordCarriesFinalAnalysis ==
  (/\ lastRec.op = "stopRecording"
   /\ last.op = "stopAnalysis"
   /\ last.dispatched # <<>>
   /\ callRecord.duration = "elapsed")
    => callRecord = CallRecordOf(AnalysisOf(last.dispatched[1]), "elapsed")

\* C33: when starting the recording fails, no analysis session is started: the
\* session is not Monitoring and no warm-up or recurring timer is pending.
C33_FailedStartStartsNoSession ==
  (lastRec.op = "startRecordingFailed" /\ ~isRecording)
    => /\ ~isAnalyzing
       /\ \A tm \in timers : tm.kind \notin {"warmup", "interval"}

RecorderFlags == << isRecording, isPaused, isRecordingRef, isPausedRef >>

\* C35: isPaused implies isRecording, the refs equal the state, and a pause
\* changes the recorder only when it is recording and not paused, a resume
\* only when it is recording and paused, a stop only when it is recording.
C35_RecorderStateInvariant ==
  /\ []((isPaused => isRecording)
        /\ isRecordingRef = isRecording
        /\ isPausedRef = isPaused)
  /\ [][(/\ lastRec'.op \in {"pauseRecording", "resumeRecording", "stopRecording"}
         /\ << RecorderFlags, mediaRecorders, recognitions >>'
              # << RecorderFlags, mediaRecorders, recognitions >>)
          => /\ isRecording
             /\ lastRec'.op = "pauseRecording" => ~isPaused
             /\ lastRec'.op = "resumeRecording" => isPaused]_vars

\* A pause has taken effect on the second recorder while the first, never
\* stopped, is still recording.
C35_Witness ==
  /\ lastRec = RecStep("pauseRecording", 2)
  /\ isRecording /\ isPaused /\ isRecordingRef /\ isPausedRef
  /\ mediaRecorders[2] = "paused"
  /\ mediaRecorders[1] = "recording"

\* C36: no speech recognition is running while the recorder is stopped or
\* paused.
C36_NoRecognitionWhileStoppedOrPaused ==
  \A id \in RecorderIds : recognitions[id] = "running" => (isRecording /\ ~isPaused)

====
